---- MODULE Spec2Model ----
(***************************************************************************)
(* State-machine model of the Go engine of anh627/goboard.                 *)
(*                                                                         *)
(*   GoBoard            src/js/board.js                                    *)
(*   standalone GoGame  src/js/game.js lines 2-386 (names prefixed G_)     *)
(*   GoGame on GoBoard  src/js/game.js lines 1659-2576 (prefixed S_)       *)
(*   GoRules            src/unnamed/part_002 lines 13-263                  *)
(*                                                                         *)
(* A cell is the pair <<x, y>>.  A grid is a function from cells to        *)
(* 0 (empty), 1 (black), 2 (white).  A JavaScript Map is a function whose  *)
(* domain is the set of keys present.  The two bit boards are modelled as  *)
(* the sets of bit indices that are set.                                   *)
(*                                                                         *)
(* GoBoard's constructor accepts the sizes 9, 13 and 19 only.  The         *)
(* operations modelled here read the size in their bounds tests and        *)
(* nowhere else, and the model runs them on a Size x Size grid; the        *)
(* standalone GoGame takes any size, here GameSize.                        *)
(***************************************************************************)
EXTENDS Integers, Sequences, FiniteSets, TLC

Size == 2
MaxSteps == 4
MaxDeepSteps == 6
MaxGameSteps == 5
GameSize == 3
MaxSessionSteps == 5
MaxMainSteps == 5
MaxMoveTime == 1
MaxRulesSteps == 4
MaxKomi == 1
S_lruCacheLimit == 2
SimCount == 3
MaxAIPlacements == 2
MaxAISteps == 8
MaxWorkers == 2
MaxParallelPlacements == 1

\* GoBoard.lruCacheLimit
lruCacheLimit == 1000

\* the cap of the playout of GoAI.simulate: while (moves < 100)
playoutCap == 100

Null == <<>>
Cells == (0 .. Size - 1) \X (0 .. Size - 1)
Coords == -1 .. Size
Players == {1, 2}
Range(s) == {s[i] : i \in DOMAIN s}
EmptyMap == [k \in {} |-> 0]
EmptyGrid == [c \in Cells |-> 0]

VARIABLES
  board, bitBoardBlack, bitBoardWhite, koPoint, superKoHistory,
  captured, moveHistory, groupCache, libertyCache, sekiCache,
  eyeCache, territoryCache,
  g_board, g_currentPlayer, g_captures, g_history, g_koPoint,
  g_consecutivePasses, g_gameOver, g_winner, g_deadStones,
  gc_mode, gc_isAIThinking, gc_isDeadMarkingMode, gc_aiMessages,
  gc_aiWorker, gc_onmessage, gc_hintPosition,
  s_currentPlayer, s_history, s_captured, s_gameState, s_moveCount,
  s_passCount, s_time, s_byoyomi, s_byoyomiPeriods,
  s_aiPlayer, s_aiTimers, s_staleTimers, s_scoreCache, s_stateCache,
  r_komi, r_scoreCache, r_gameStateCache,
  ai_pc, ai_nodes, ai_iter, ai_table, ai_from,
  par_pc, par_simCount, par_workerCount, par_workers, par_j, par_root,
  par_results, par_playouts,
  mcts_pc, mcts_node, mcts_currentPlayer, mcts_moves, mcts_result,
  m_board, m_mode, m_aiPlayer, m_gameState, m_timers,
  op, ret, steps, placedGrids

boardVars == <<board, bitBoardBlack, bitBoardWhite, koPoint, superKoHistory,
               captured, moveHistory, groupCache, libertyCache, sekiCache,
               eyeCache, territoryCache, placedGrids>>
gameVars == <<g_board, g_currentPlayer, g_captures, g_history, g_koPoint,
              g_consecutivePasses, g_gameOver, g_winner, g_deadStones>>
sessionVars == <<s_currentPlayer, s_history, s_captured, s_gameState, s_moveCount,
                 s_passCount, s_time, s_byoyomi, s_byoyomiPeriods,
                 s_aiPlayer, s_aiTimers, s_staleTimers, s_scoreCache, s_stateCache>>
rulesVars == <<r_komi, r_scoreCache, r_gameStateCache>>
aiVars == <<ai_pc, ai_nodes, ai_iter, ai_table, ai_from>>
parVars == <<par_pc, par_simCount, par_workerCount, par_workers, par_j, par_root,
            par_results, par_playouts>>
ctlVars == <<gc_mode, gc_isAIThinking, gc_isDeadMarkingMode, gc_aiMessages,
            gc_aiWorker, gc_onmessage, gc_hintPosition>>
searchVars == <<mcts_pc, mcts_node, mcts_currentPlayer, mcts_moves, mcts_result>>
mainVars == <<m_board, m_mode, m_aiPlayer, m_gameState, m_timers>>
vars == <<boardVars, gameVars, sessionVars, rulesVars, aiVars, parVars, ctlVars,
          searchVars, mainVars, op, ret, steps>>

(***************************************************************************)
(* GoBoard helpers                                                         *)
(***************************************************************************)
coordsToBitIndex(x, y) == x * Size + y

inBounds(x, y) == x >= 0 /\ x < Size /\ y >= 0 /\ y < Size

getNeighbors(c) ==
  SelectSeq(<< <<c[1] - 1, c[2]>>, <<c[1] + 1, c[2]>>,
               <<c[1], c[2] - 1>>, <<c[1], c[2] + 1>> >>,
            LAMBDA n : inBounds(n[1], n[2]))

getBoardStateString(b) ==
  [i \in 1 .. Size * Size |-> b[<<(i - 1) \div Size, (i - 1) % Size>>]]

\* the for-loop over the neighbours of the popped cell in getGroup
RECURSIVE groupVisit(_, _, _, _)
groupVisit(b, color, nbrs, st) ==
  IF nbrs = <<>> THEN st
  ELSE LET n == Head(nbrs) IN
       IF b[n] = color /\ n \notin st.visited
       THEN groupVisit(b, color, Tail(nbrs),
                       [group |-> Append(st.group, n),
                        stack |-> Append(st.stack, n),
                        visited |-> st.visited \cup {n}])
       ELSE groupVisit(b, color, Tail(nbrs), st)

\* the while (stack.length) loop of getGroup
RECURSIVE groupLoop(_, _, _)
groupLoop(b, color, st) ==
  IF st.stack = <<>> THEN st.group
  ELSE LET cur == st.stack[Len(st.stack)]
           popped == [st EXCEPT !.stack = SubSeq(st.stack, 1, Len(st.stack) - 1)]
       IN groupLoop(b, color, groupVisit(b, color, getNeighbors(cur), popped))

\* a cache miss of getGroup: depth-first flood fill from c on grid b
groupSearch(b, c) ==
  groupLoop(b, b[c], [group |-> <<c>>, stack |-> <<c>>, visited |-> {c}])

\* getGroup(x, y): the value returned and the group cache afterwards
getGroup(b, gc, c) ==
  IF c \in DOMAIN gc
  THEN [val |-> gc[c], gc |-> gc]
  ELSE LET g == groupSearch(b, c) IN [val |-> g, gc |-> (c :> g) @@ gc]

\* the inner loop of getGroupLiberties: the empty cells among nbrs that are
\* not yet listed are added to the list
RECURSIVE addLiberties(_, _, _)
addLiberties(b, nbrs, acc) ==
  IF nbrs = <<>> THEN acc
  ELSE addLiberties(b, Tail(nbrs),
                    IF b[Head(nbrs)] = 0 /\ Head(nbrs) \notin Range(acc)
                    THEN Append(acc, Head(nbrs)) ELSE acc)

\* the outer loop of getGroupLiberties over the cells of the group
RECURSIVE libertiesLoop(_, _, _)
libertiesLoop(b, g, acc) ==
  IF g = <<>> THEN acc
  ELSE libertiesLoop(b, Tail(g), addLiberties(b, getNeighbors(Head(g)), acc))

\* getGroupLiberties(group): the empty neighbours of the cells of a group, in
\* the order of insertion into the Set
getGroupLiberties(b, g) == libertiesLoop(b, g, <<>>)

\* getLiberties that never answers from the liberty cache
getLiberties_uncached(b, gc, lc, c) ==
  LET g == getGroup(b, gc, c)
      libs == getGroupLiberties(b, g.val)
  IN [val |-> libs, gc |-> g.gc, lc |-> (c :> libs) @@ lc]

\* getLiberties(x, y): the value returned and both caches afterwards; the
\* loops are those of getGroupLiberties
getLiberties(b, gc, lc, c) ==
  IF c \in DOMAIN lc
  THEN [val |-> lc[c], gc |-> gc, lc |-> lc]
  ELSE LET g == getGroup(b, gc, c)
           libs == getGroupLiberties(b, g.val)
       IN [val |-> libs, gc |-> g.gc, lc |-> (c :> libs) @@ lc]

\* the loop of checkCaptures over the neighbours of the placed stone
RECURSIVE checkCapturesLoop(_, _, _, _)
checkCapturesLoop(b, opponent, nbrs, acc) ==
  IF nbrs = <<>> THEN acc
  ELSE LET n == Head(nbrs) IN
       IF b[n] = opponent
       THEN LET g == getGroup(b, acc.gc, n)
                l == getLiberties(b, g.gc, acc.lc, n)
            IN checkCapturesLoop(b, opponent, Tail(nbrs),
                 [captured |-> IF Len(l.val) = 0 THEN acc.captured \o g.val
                               ELSE acc.captured,
                  gc |-> l.gc, lc |-> l.lc])
       ELSE checkCapturesLoop(b, opponent, Tail(nbrs), acc)

checkCaptures(b, gc, lc, c, player) ==
  checkCapturesLoop(b, IF player = 1 THEN 2 ELSE 1, getNeighbors(c),
                    [captured |-> <<>>, gc |-> gc, lc |-> lc])

checkKo(kp, c) == kp # Null /\ c = kp

\* a superko test that lets a position through until it has been seen twice
checkSuperKo_twice(hist, state) == state \in DOMAIN hist /\ hist[state] >= 2

\* a superko test that lets every position through
checkSuperKo_never(hist, state) == FALSE

checkSuperKo(hist, state) == state \in DOMAIN hist /\ hist[state] >= 1

\* checkTripleKo(): some fingerprint has been counted three times
checkTripleKo(hist) == \E state \in DOMAIN hist : hist[state] >= 3

\* the loops of isSeki over the neighbours nbrs of the two liberties: the
\* first opposing stone whose group has two liberties ends the search
RECURSIVE isSekiScan(_, _, _, _)
isSekiScan(b, color, nbrs, gc) ==
  IF nbrs = <<>> THEN [found |-> FALSE, gc |-> gc]
  ELSE LET n == Head(nbrs) IN
       IF b[n] # 0 /\ b[n] # color
       THEN LET opponentGroup == getGroup(b, gc, n) IN
            IF Len(getGroupLiberties(b, opponentGroup.val)) = 2
            THEN [found |-> TRUE, gc |-> opponentGroup.gc]
            ELSE isSekiScan(b, color, Tail(nbrs), opponentGroup.gc)
       ELSE isSekiScan(b, color, Tail(nbrs), gc)

\* isSeki lines 295-311, with l the result of getLiberties(x, y)
isSekiTest(b, sc, c, l) ==
  IF Len(l.val) = 2
  THEN LET scan == isSekiScan(b, b[c],
                              getNeighbors(l.val[1]) \o getNeighbors(l.val[2]), l.gc)
       IN [val |-> scan.found, gc |-> scan.gc, lc |-> l.lc,
           sc |-> (c :> scan.found) @@ sc]
  ELSE [val |-> FALSE, gc |-> l.gc, lc |-> l.lc, sc |-> (c :> FALSE) @@ sc]

\* isSeki(x, y): the value returned and the three caches afterwards
isSeki(b, gc, lc, sc, c) ==
  IF c \in DOMAIN sc
  THEN [val |-> sc[c], gc |-> gc, lc |-> lc, sc |-> sc]
  ELSE isSekiTest(b, sc, c, getLiberties(b, getGroup(b, gc, c).gc, lc, c))

\* the loop of updateSekiStatus: isSeki is called for every stone
RECURSIVE updateSekiLoop(_, _, _)
updateSekiLoop(b, i, acc) ==
  IF i > Size * Size THEN acc
  ELSE LET c == <<(i - 1) \div Size, (i - 1) % Size>> IN
       IF b[c] # 0
       THEN updateSekiLoop(b, i + 1, isSeki(b, acc.gc, acc.lc, acc.sc, c))
       ELSE updateSekiLoop(b, i + 1, acc)

\* updateSekiStatus(): the three caches afterwards
updateSekiStatus(b, gc, lc) ==
  updateSekiLoop(b, 1, [val |-> FALSE, gc |-> gc, lc |-> lc, sc |-> EmptyMap])

\* the GoBoard object held in the variables
this ==
  [board |-> board, bitBoardBlack |-> bitBoardBlack, bitBoardWhite |-> bitBoardWhite,
   koPoint |-> koPoint, superKoHistory |-> superKoHistory, captured |-> captured,
   moveHistory |-> moveHistory, groupCache |-> groupCache,
   libertyCache |-> libertyCache, sekiCache |-> sekiCache,
   eyeCache |-> eyeCache, territoryCache |-> territoryCache]

\* new GoBoard(size)
newGoBoard ==
  [board |-> EmptyGrid, bitBoardBlack |-> {}, bitBoardWhite |-> {},
   koPoint |-> Null, superKoHistory |-> EmptyMap, captured |-> [p \in Players |-> 0],
   moveHistory |-> <<>>, groupCache |-> EmptyMap, libertyCache |-> EmptyMap,
   sekiCache |-> EmptyMap, eyeCache |-> EmptyMap, territoryCache |-> EmptyMap]

isValidMove(B, x, y, player) ==
  /\ inBounds(x, y)
  /\ B.board[<<x, y>>] = 0
  /\ coordsToBitIndex(x, y) \notin (B.bitBoardBlack \cup B.bitBoardWhite)

revertMove(B, c, player) ==
  [B EXCEPT !.board = [@ EXCEPT ![c] = 0],
            !.bitBoardBlack = IF player = 1 THEN @ \ {coordsToBitIndex(c[1], c[2])} ELSE @,
            !.bitBoardWhite = IF player = 1 THEN @ ELSE @ \ {coordsToBitIndex(c[1], c[2])}]

\* placeStone lines 87-93: the move is recorded
placeStoneCommit(placed, c, player, capt, boardState, newBoardState, seki) ==
  [ret |-> TRUE,
   obj |-> [placed EXCEPT
     !.superKoHistory =
        (newBoardState :>
           ((IF newBoardState \in DOMAIN @ THEN @[newBoardState] ELSE 0) + 1)) @@ @,
     !.koPoint = IF Len(capt) = 1 THEN c ELSE Null,
     !.moveHistory = Append(@, [x |-> c[1], y |-> c[2], player |-> player,
                                captured |-> capt, state |-> boardState]),
     !.groupCache = seki.gc,
     !.libertyCache = seki.lc,
     !.sekiCache = seki.sc]]

\* placeStone lines 72-86: the suicide, ko and superko tests, on the grid b2
\* left by the captures and with lib the result of getLiberties(x, y)
placeStoneTests(B, c, player, capt, b2, lib) ==
  LET bit == coordsToBitIndex(c[1], c[2])
      capBits == {coordsToBitIndex(d[1], d[2]) : d \in Range(capt)}
      placed ==
        [B EXCEPT !.board = b2,
                  !.bitBoardBlack = IF player = 1 THEN @ \cup {bit} ELSE @ \ capBits,
                  !.bitBoardWhite = IF player = 1 THEN @ \ capBits ELSE @ \cup {bit},
                  !.captured = [@ EXCEPT ![player] = @ + Len(capt)],
                  !.groupCache = lib.gc,
                  !.libertyCache = lib.lc]
  IN
    IF Len(capt) = 0 /\ Len(lib.val) = 0
      THEN [ret |-> FALSE, obj |-> revertMove(placed, c, player)]
    ELSE IF Len(capt) = 1 /\ checkKo(B.koPoint, c)
      THEN [ret |-> FALSE, obj |-> revertMove(placed, c, player)]
    ELSE IF checkSuperKo(B.superKoHistory, getBoardStateString(b2))
      THEN [ret |-> FALSE, obj |-> revertMove(placed, c, player)]
    ELSE placeStoneCommit(placed, c, player, capt,
                          getBoardStateString(B.board), getBoardStateString(b2),
                          updateSekiStatus(b2, lib.gc, lib.lc))

\* placeStone lines 61-71: the stones listed by checkCaptures leave the grid,
\* then getLiberties(x, y) is asked
placeStoneCaptures(B, c, player, cc) ==
  LET b2 == [d \in Cells |-> IF d \in Range(cc.captured) THEN 0
                             ELSE IF d = c THEN player ELSE B.board[d]]
  IN placeStoneTests(B, c, player, cc.captured, b2, getLiberties(b2, cc.gc, cc.lc, c))

\* placeStone(x, y, player): the value returned and the object afterwards
placeStone(B, x, y, player) ==
  IF ~isValidMove(B, x, y, player) THEN [ret |-> FALSE, obj |-> B]
  ELSE placeStoneCaptures(B, <<x, y>>, player,
         checkCaptures([B.board EXCEPT ![<<x, y>>] = player],
                       B.groupCache, B.libertyCache, <<x, y>>, player))

\* undoMove(): the object afterwards
undoMove(B) ==
  IF Len(B.moveHistory) = 0 THEN B
  ELSE
    LET m == B.moveHistory[Len(B.moveHistory)]
        c == <<m.x, m.y>>
        r == revertMove(B, c, m.player)
        capSet == Range(m.captured)
        capBits == {coordsToBitIndex(d[1], d[2]) : d \in capSet}
        b2 == [d \in Cells |-> IF d \in capSet
                               THEN (IF m.player = 1 THEN 2 ELSE 1) ELSE r.board[d]]
        seki == updateSekiStatus(b2, EmptyMap, EmptyMap)
    IN [r EXCEPT
          !.moveHistory = SubSeq(B.moveHistory, 1, Len(B.moveHistory) - 1),
          !.board = b2,
          !.bitBoardBlack = IF m.player = 1 THEN @ ELSE @ \cup capBits,
          !.bitBoardWhite = IF m.player = 1 THEN @ \cup capBits ELSE @,
          !.captured = [@ EXCEPT ![m.player] = @ - Len(m.captured)],
          !.groupCache = seki.gc,
          !.libertyCache = seki.lc,
          !.sekiCache = seki.sc,
          !.eyeCache = EmptyMap,
          !.territoryCache = EmptyMap]

\* markDeadGroups(player, deadPoints): the object afterwards
markDeadGroups(B, player, deadPoints) ==
  LET dead == {d \in Range(deadPoints) : B.board[d] = (IF player = 1 THEN 2 ELSE 1)}
      deadBits == {coordsToBitIndex(d[1], d[2]) : d \in dead}
  IN [B EXCEPT
        !.board = [d \in Cells |-> IF d \in dead THEN 0 ELSE B.board[d]],
        !.bitBoardBlack = IF player = 1 THEN @ ELSE @ \ deadBits,
        !.bitBoardWhite = IF player = 1 THEN @ \ deadBits ELSE @,
        !.captured = [@ EXCEPT ![player] = @ + Cardinality(dead)],
        !.groupCache = EmptyMap,
        !.libertyCache = EmptyMap,
        !.sekiCache = EmptyMap,
        !.eyeCache = EmptyMap,
        !.territoryCache = EmptyMap]

\* handleEternalLife(): the result and the object afterwards
handleEternalLife(B) ==
  IF checkTripleKo(B.superKoHistory)
  THEN [ret |-> TRUE,
        obj |-> [B EXCEPT
                   !.moveHistory = SubSeq(@, 1, Len(@) - 2),
                   !.superKoHistory = EmptyMap,
                   !.groupCache = EmptyMap,
                   !.libertyCache = EmptyMap,
                   !.sekiCache = EmptyMap,
                   !.eyeCache = EmptyMap,
                   !.territoryCache = EmptyMap]]
  ELSE [ret |-> FALSE, obj |-> B]

\* isEye(x, y)
isEye(b, c) ==
  /\ b[c] = 0
  /\ Len(getNeighbors(c)) > 0
  /\ b[getNeighbors(c)[1]] # 0
  /\ \A n \in Range(getNeighbors(c)) : b[n] = b[getNeighbors(c)[1]]

\* the loop of isTrueEye over the neighbours: a neighbour whose liberties
\* are fewer than two ends the loop
RECURSIVE trueEyeLoop(_, _, _)
trueEyeLoop(b, nbrs, acc) ==
  IF nbrs = <<>> THEN acc
  ELSE LET group == getGroup(b, acc.gc, Head(nbrs))
           l == getLiberties(b, group.gc, acc.lc, Head(nbrs))
       IN IF Len(l.val) < 2
          THEN [acc EXCEPT !.enough = FALSE, !.gc = l.gc, !.lc = l.lc]
          ELSE trueEyeLoop(b, Tail(nbrs),
                 [enough |-> TRUE, groupKeys |-> acc.groupKeys \cup {group.val},
                  gc |-> l.gc, lc |-> l.lc])

\* isTrueEye lines 366-369, with acc the outcome of the loop
isTrueEyeResult(ec, c, acc) ==
  IF ~acc.enough THEN [val |-> FALSE, gc |-> acc.gc, lc |-> acc.lc, ec |-> ec]
  ELSE [val |-> Cardinality(acc.groupKeys) = 1, gc |-> acc.gc, lc |-> acc.lc,
        ec |-> (<<c, "trueEye">> :> (Cardinality(acc.groupKeys) = 1)) @@ ec]

\* isTrueEye(x, y): the value returned and the three caches afterwards
isTrueEye(b, gc, lc, ec, c) ==
  IF <<c, "trueEye">> \in DOMAIN ec
  THEN [val |-> ec[<<c, "trueEye">>], gc |-> gc, lc |-> lc, ec |-> ec]
  ELSE IF ~isEye(b, c) THEN [val |-> FALSE, gc |-> gc, lc |-> lc, ec |-> ec]
  ELSE isTrueEyeResult(ec, c,
         trueEyeLoop(b, getNeighbors(c),
                     [enough |-> TRUE, groupKeys |-> {}, gc |-> gc, lc |-> lc]))

\* calculateTerritoryJapanese lines 430-435 for one empty cell, with eye the
\* outcome of isTrueEye
territoryCell(b, player, c, acc, eye) ==
  [territory |-> IF eye.val /\ \A n \in Range(getNeighbors(c)) : b[n] = player
                 THEN acc.territory + 1 ELSE acc.territory,
   gc |-> eye.gc, lc |-> eye.lc, ec |-> eye.ec]

\* the two for-loops of calculateTerritoryJapanese over the cells
RECURSIVE territoryLoop(_, _, _, _)
territoryLoop(b, player, i, acc) ==
  IF i > Size * Size THEN acc
  ELSE LET c == <<(i - 1) \div Size, (i - 1) % Size>> IN
       IF b[c] = 0
       THEN territoryLoop(b, player, i + 1,
              territoryCell(b, player, c, acc, isTrueEye(b, acc.gc, acc.lc, acc.ec, c)))
       ELSE territoryLoop(b, player, i + 1, acc)

\* calculateTerritoryJapanese lines 437-439: the count is cached and returned
territoryCached(B, player, acc) ==
  [val |-> acc.territory,
   obj |-> [B EXCEPT
              !.territoryCache = (<<"territory-japanese", player>> :> acc.territory) @@ @,
              !.groupCache = acc.gc,
              !.libertyCache = acc.lc,
              !.eyeCache = acc.ec]]

\* calculateTerritoryJapanese(player): the value returned and the object
\* afterwards
calculateTerritoryJapanese(B, player) ==
  IF <<"territory-japanese", player>> \in DOMAIN B.territoryCache
  THEN [val |-> B.territoryCache[<<"territory-japanese", player>>], obj |-> B]
  ELSE territoryCached(B, player,
         territoryLoop(B.board, player, 1,
           [territory |-> B.captured[IF player = 1 THEN 2 ELSE 1],
            gc |-> B.groupCache, lc |-> B.libertyCache, ec |-> B.eyeCache]))

(***************************************************************************)
(* Standalone GoGame (js/game.js lines 2-386)                              *)
(***************************************************************************)
G_Cells == (0 .. GameSize - 1) \X (0 .. GameSize - 1)

G_Coords == -1 .. GameSize

G_EmptyGrid == [c \in G_Cells |-> 0]

G_inBounds(x, y) == x >= 0 /\ x < GameSize /\ y >= 0 /\ y < GameSize

G_this ==
  [board |-> g_board, currentPlayer |-> g_currentPlayer, captures |-> g_captures,
   history |-> g_history, koPoint |-> g_koPoint,
   consecutivePasses |-> g_consecutivePasses, gameOver |-> g_gameOver,
   winner |-> g_winner, deadStones |-> g_deadStones]

\* new GoGame(size) with handicap 0; the constructor sets no winner
\* property, which is winner = 0 here
G_newGoGame ==
  [board |-> G_EmptyGrid, currentPlayer |-> 1, captures |-> [p \in Players |-> 0],
   history |-> <<>>, koPoint |-> Null, consecutivePasses |-> 0, gameOver |-> FALSE,
   winner |-> 0, deadStones |-> {}]

G_getNeighbors(c) ==
  SelectSeq(<< <<c[1], c[2] + 1>>, <<c[1] + 1, c[2]>>,
               <<c[1], c[2] - 1>>, <<c[1] - 1, c[2]>> >>,
            LAMBDA n : G_inBounds(n[1], n[2]))

\* the while (stack.length > 0) loop of getGroup
RECURSIVE G_groupLoop(_, _, _, _, _)
G_groupLoop(b, color, stack, visited, group) ==
  IF stack = <<>> THEN group
  ELSE LET cur == stack[Len(stack)]
           rest == SubSeq(stack, 1, Len(stack) - 1)
       IN IF cur \in visited THEN G_groupLoop(b, color, rest, visited, group)
          ELSE IF b[cur] = color
          THEN G_groupLoop(b, color,
                 rest \o SelectSeq(G_getNeighbors(cur),
                                   LAMBDA n : n \notin (visited \cup {cur})),
                 visited \cup {cur}, group \cup {cur})
          ELSE G_groupLoop(b, color, rest, visited \cup {cur}, group)

G_getGroup(b, c) ==
  IF b[c] = 0 THEN {} ELSE G_groupLoop(b, b[c], <<c>>, {}, {})

G_getGroupLiberties(b, c) ==
  LET group == G_getGroup(b, c) IN
  {n \in G_Cells : b[n] = 0 /\ \E s \in group : n \in Range(G_getNeighbors(s))}

G_isSuicideMove(b, c, player) ==
  LET b1 == [b EXCEPT ![c] = player]
      hasLiberties == Cardinality(G_getGroupLiberties(b1, c)) > 0
      wouldCapture == \E i \in DOMAIN G_getNeighbors(c) :
                        LET n == G_getNeighbors(c)[i] IN
                          b1[n] = 3 - player /\ Cardinality(G_getGroupLiberties(b1, n)) = 0
  IN ~hasLiberties /\ ~wouldCapture

\* a validity test that forgets the ko point
G_isValidMove_noKo(G, x, y) ==
  /\ G_inBounds(x, y)
  /\ G.board[<<x, y>>] = 0
  /\ ~G_isSuicideMove(G.board, <<x, y>>, G.currentPlayer)

G_isValidMove(G, x, y) ==
  /\ G_inBounds(x, y)
  /\ G.board[<<x, y>>] = 0
  /\ ~(G.koPoint # Null /\ G.koPoint = <<x, y>>)
  /\ ~G_isSuicideMove(G.board, <<x, y>>, G.currentPlayer)

\* the forEach of captureStones over the neighbours of the placed stone
RECURSIVE G_captureLoop(_, _, _)
G_captureLoop(opponent, nbrs, acc) ==
  IF nbrs = <<>> THEN acc
  ELSE LET n == Head(nbrs) IN
       IF acc.board[n] = opponent /\ Cardinality(G_getGroupLiberties(acc.board, n)) = 0
       THEN LET group == G_getGroup(acc.board, n) IN
            G_captureLoop(opponent, Tail(nbrs),
              [board |-> [d \in G_Cells |-> IF d \in group THEN 0 ELSE acc.board[d]],
               captured |-> acc.captured \cup group])
       ELSE G_captureLoop(opponent, Tail(nbrs), acc)

\* a capture step that takes nothing off the grid
G_captureStones_none(b, c, currentPlayer) == [board |-> b, captured |-> {}]

G_captureStones(b, c, currentPlayer) ==
  G_captureLoop(3 - currentPlayer, G_getNeighbors(c), [board |-> b, captured |-> {}])

G_isKoSituation(b, last) == Cardinality(G_getGroup(b, last)) = 1

\* a saveState that forgets the ko point
G_saveState_noKo(G) ==
  [G EXCEPT !.history = Append(@, [board |-> G.board, currentPlayer |-> G.currentPlayer,
                                   captures |-> G.captures, koPoint |-> Null,
                                   consecutivePasses |-> G.consecutivePasses])]

G_saveState(G) ==
  [G EXCEPT !.history = Append(@, [board |-> G.board, currentPlayer |-> G.currentPlayer,
                                   captures |-> G.captures, koPoint |-> G.koPoint,
                                   consecutivePasses |-> G.consecutivePasses])]

\* placeStone(x, y): the value returned and the object afterwards
G_placeStone(G, x, y) ==
  IF ~G_isValidMove(G, x, y) THEN [ret |-> FALSE, obj |-> G]
  ELSE
    LET c == <<x, y>>
        saved == G_saveState(G)
        cs == G_captureStones([G.board EXCEPT ![c] = G.currentPlayer], c, G.currentPlayer)
        n == Cardinality(cs.captured)
    IN [ret |-> TRUE,
        obj |-> [saved EXCEPT
          !.board = cs.board,
          !.consecutivePasses = 0,
          !.captures = [@ EXCEPT ![G.currentPlayer] = @ + n],
          !.koPoint = IF n = 1 /\ G_isKoSituation(cs.board, c)
                      THEN CHOOSE d \in cs.captured : TRUE ELSE Null,
          !.currentPlayer = 3 - G.currentPlayer]]

\* pass(): the value returned and the object afterwards
G_pass(G) ==
  LET saved == G_saveState(G)
      passes == G.consecutivePasses + 1
  IN [ret |-> passes >= 2,
      obj |-> [saved EXCEPT !.consecutivePasses = passes,
                            !.currentPlayer = 3 - G.currentPlayer,
                            !.gameOver = IF passes >= 2 THEN TRUE ELSE @]]

\* resign(): the value returned and the object afterwards
G_resign(G) ==
  [ret |-> 3 - G.currentPlayer,
   obj |-> [G EXCEPT !.gameOver = TRUE, !.winner = 3 - G.currentPlayer]]

\* undo(): the value returned and the object afterwards
G_undo(G) ==
  IF Len(G.history) = 0 THEN [ret |-> FALSE, obj |-> G]
  ELSE LET state == G.history[Len(G.history)] IN
       [ret |-> TRUE,
        obj |-> [G EXCEPT !.history = SubSeq(@, 1, Len(@) - 1),
                          !.board = state.board,
                          !.currentPlayer = state.currentPlayer,
                          !.captures = state.captures,
                          !.koPoint = state.koPoint,
                          !.consecutivePasses = state.consecutivePasses]]

\* markDeadStone(x, y): the object afterwards
G_markDeadStone(G, x, y) ==
  IF <<x, y>> \in G.deadStones
  THEN [G EXCEPT !.deadStones = @ \ G_getGroup(G.board, <<x, y>>)]
  ELSE [G EXCEPT !.deadStones = @ \cup G_getGroup(G.board, <<x, y>>)]

(***************************************************************************)
(* GameController (js/game.js lines 389-900), names prefixed GC_.          *)
(* aiMessages counts the messages posted to the AI worker that it has not  *)
(* answered yet.                                                           *)
(***************************************************************************)
GC_this ==
  [game |-> G_this, mode |-> gc_mode, isAIThinking |-> gc_isAIThinking,
   isDeadMarkingMode |-> gc_isDeadMarkingMode, aiMessages |-> gc_aiMessages,
   aiWorker |-> gc_aiWorker, onmessage |-> gc_onmessage,
   hintPosition |-> gc_hintPosition]

\* new GameController() followed by startNewGame() in mode 'hotseat'.
\* aiMessages counts the messages posted to the worker and not yet answered;
\* aiWorker tells whether the worker exists and onmessage names its handler
GC_newGameController ==
  [game |-> G_newGoGame, mode |-> "hotseat", isAIThinking |-> FALSE,
   isDeadMarkingMode |-> FALSE, aiMessages |-> 0,
   aiWorker |-> FALSE, onmessage |-> "none", hintPosition |-> Null]

\* triggerAIMove()
GC_triggerAIMove(C) ==
  [C EXCEPT !.isAIThinking = TRUE, !.aiMessages = @ + 1]

\* the test before the calls of triggerAIMove
GC_triggerIfAI(C) ==
  IF C.mode = "ai" /\ C.game.currentPlayer = 2 THEN GC_triggerAIMove(C) ELSE C

\* endGame()
GC_endGame(C) == [C EXCEPT !.isDeadMarkingMode = TRUE]

\* startNewGame() with the mode chosen in the settings
GC_startNewGame(C, mode) ==
  GC_triggerIfAI([C EXCEPT
    !.mode = mode,
    !.game = G_newGoGame,
    !.aiWorker = IF mode = "ai" THEN TRUE ELSE @,
    !.onmessage = IF mode = "ai" /\ ~C.aiWorker THEN "handleAIMove" ELSE @])

\* handleCanvasClick lines 551-560, with r the outcome of game.placeStone
GC_clickPlaced(C, r) ==
  IF r.ret THEN GC_triggerIfAI([C EXCEPT !.game = r.obj])
  ELSE [C EXCEPT !.game = r.obj]

\* handleCanvasClick(e) for a click on the intersection (x, y)
GC_handleCanvasClick(C, x, y) ==
  IF C.game.gameOver \/ C.isAIThinking THEN C
  ELSE IF C.isDeadMarkingMode THEN [C EXCEPT !.game = G_markDeadStone(@, x, y)]
  ELSE GC_clickPlaced(C, G_placeStone(C.game, x, y))

\* handlePass lines 799-804, with r the outcome of game.pass()
GC_passed(C, r) ==
  IF r.ret THEN GC_endGame([C EXCEPT !.game = r.obj])
  ELSE GC_triggerIfAI([C EXCEPT !.game = r.obj])

\* handlePass()
GC_handlePass(C) == GC_passed(C, G_pass(C.game))

\* handleAIMove(move): the worker's answer
GC_handleAIMove(C, x, y) ==
  [C EXCEPT !.isAIThinking = FALSE,
            !.aiMessages = @ - 1,
            !.game = G_placeStone(@, x, y).obj]

\* handleResign()
GC_handleResign(C) == GC_endGame([C EXCEPT !.game = G_resign(@).obj])

\* handleUndo()
GC_handleUndo(C) == [C EXCEPT !.game = G_undo(@).obj]

\* showHint() at a level other than 'pro': a message is posted and the
\* worker's handler is replaced.  Without a worker postMessage throws
GC_showHint(C) ==
  IF ~C.aiWorker THEN C
  ELSE [C EXCEPT !.aiMessages = @ + 1, !.onmessage = "hint"]

\* the handler installed by showHint (lines 826-830) receives the point (x, y)
GC_hintReceived(C, x, y) ==
  [C EXCEPT !.aiMessages = @ - 1, !.hintPosition = <<x, y>>]

\* resumeGame()
GC_resumeGame(C) ==
  [C EXCEPT !.isDeadMarkingMode = FALSE,
            !.game = [@ EXCEPT !.gameOver = FALSE, !.consecutivePasses = 0]]

(***************************************************************************)
(* GoGame on a GoBoard (js/game.js lines 1657-2576), names prefixed S_.    *)
(* Its board is the GoBoard held in the board variables.  Clock values     *)
(* are whole ticks.  The mode is 'pvp', so no AI move is ever scheduled,   *)
(* and startGame is not called, so no interval timer runs.                 *)
(***************************************************************************)
\* the timeSettings given to the constructor
timeSettings == [mainTime |-> 1, byoyomi |-> 1, periods |-> 1]

\* the null in the x and y of a pass recorded in the history
S_null == -2

S_this ==
  [board |-> this, currentPlayer |-> s_currentPlayer, history |-> s_history,
   captured |-> s_captured, gameState |-> s_gameState, moveCount |-> s_moveCount,
   passCount |-> s_passCount, time |-> s_time, byoyomi |-> s_byoyomi,
   byoyomiPeriods |-> s_byoyomiPeriods,
   aiPlayer |-> s_aiPlayer, aiTimers |-> s_aiTimers, staleTimers |-> s_staleTimers,
   scoreCache |-> s_scoreCache, stateCache |-> s_stateCache]

\* new GoGame(size, 'pvp', timeSettings).  aiPlayer is 0 for null; aiTimers
\* counts the callbacks of scheduleAIMove that setTimeout holds, staleTimers
\* those of them that were scheduled before the latest resetGame
S_newGoGame ==
  [board |-> newGoBoard, currentPlayer |-> 1, history |-> <<>>,
   captured |-> [p \in Players |-> 0], gameState |-> "active", moveCount |-> 0,
   passCount |-> 0, time |-> [p \in Players |-> timeSettings.mainTime],
   byoyomi |-> [p \in Players |-> timeSettings.byoyomi],
   byoyomiPeriods |-> [p \in Players |-> timeSettings.periods],
   aiPlayer |-> 0, aiTimers |-> 0, staleTimers |-> 0,
   scoreCache |-> <<>>, stateCache |-> <<>>]

\* scheduleAIMove(): setTimeout holds one more callback
S_scheduleAIMove(S) == [S EXCEPT !.aiTimers = @ + 1]

\* the last line of makeMove, passMove and startGame
S_scheduleIfAI(S) ==
  IF S.aiPlayer # 0 /\ S.currentPlayer = S.aiPlayer THEN S_scheduleAIMove(S) ELSE S

\* The session's scoreCache and stateCache are Maps: here sequences of
\* entries [key, value] in the order of insertion
mapHas(cache, key) == \E i \in 1 .. Len(cache) : cache[i].key = key

mapGet(cache, key) == cache[CHOOSE i \in 1 .. Len(cache) : cache[i].key = key].value

\* Map.set(key, value): a key that is present keeps its place
mapSet(cache, key, value) ==
  IF mapHas(cache, key)
  THEN [i \in 1 .. Len(cache) |->
          IF cache[i].key = key THEN [key |-> key, value |-> value] ELSE cache[i]]
  ELSE Append(cache, [key |-> key, value |-> value])

\* the mutated lruCache: the entry inserted last is deleted
S_lruCache_newestDeleted(cache) ==
  IF Len(cache) > S_lruCacheLimit THEN SubSeq(cache, 1, Len(cache) - 1) ELSE cache

\* GoGame.lruCache(cache): keys[0] is deleted when the size exceeds the limit
S_lruCache(cache) ==
  IF Len(cache) > S_lruCacheLimit THEN Tail(cache) ELSE cache

\* cacheGameState(): of getState() the value keeps moveCount
S_cacheGameState(S) ==
  [S EXCEPT !.stateCache =
     S_lruCache(mapSet(@, <<getBoardStateString(S.board.board), S.currentPlayer>>,
                       S.moveCount))]

\* calculateFinalScore lines 1918-1921, with t1 and t2 the outcomes of
\* calculateTerritoryJapanese for 1 and 2.  The scores are doubled (komi is
\* 6.5, line 1674)
S_scoreStored(S, cacheKey, t1, t2) ==
  LET result == [black |-> 2 * (t1.val + S.captured[2]),
                 white |-> 2 * (t2.val + S.captured[1]) + 13,
                 winner |-> IF 2 * (t1.val + S.captured[2])
                                 > 2 * (t2.val + S.captured[1]) + 13
                            THEN 1 ELSE 2]
  IN [ret |-> result,
      obj |-> [S EXCEPT !.board = t2.obj,
                        !.scoreCache = S_lruCache(mapSet(@, cacheKey, result))]]

S_scoreComputed(S, cacheKey, t1) ==
  S_scoreStored(S, cacheKey, t1, calculateTerritoryJapanese(t1.obj, 2))

\* calculateFinalScore(): the value returned and the object afterwards
S_calculateFinalScore(S) ==
  IF mapHas(S.scoreCache, getBoardStateString(S.board.board))
  THEN [ret |-> mapGet(S.scoreCache, getBoardStateString(S.board.board)), obj |-> S]
  ELSE S_scoreComputed(S, getBoardStateString(S.board.board),
                       calculateTerritoryJapanese(S.board, 1))

S_timeout(player) == IF player = 1 THEN "player1_timeout" ELSE "player2_timeout"

\* updateTime(player, moveTime): the object afterwards
S_updateTime(S, player, moveTime) ==
  LET running == S.time[player] > 0
      t1 == IF running /\ S.time[player] - moveTime > 0
            THEN S.time[player] - moveTime ELSE 0
      inByoyomi == running /\ t1 = 0 /\ S.byoyomiPeriods[player] > 0
      used == inByoyomi /\ S.byoyomi[player] - moveTime <= 0
      periods == IF used THEN S.byoyomiPeriods[player] - 1 ELSE S.byoyomiPeriods[player]
  IN [S EXCEPT
        !.time[player] = t1,
        !.byoyomi[player] = IF used THEN timeSettings.byoyomi
                            ELSE IF inByoyomi THEN @ - moveTime ELSE @,
        !.byoyomiPeriods[player] = periods,
        !.gameState = IF t1 = 0 /\ periods = 0 THEN S_timeout(player) ELSE @]

\* checkGameEnd(): the object afterwards
S_checkGameEnd(S) ==
  IF S.passCount >= 2 THEN [S EXCEPT !.gameState = "ended"] ELSE S

\* the mutated makeMove: the stone played is counted with the captures
S_makeMoveRecord_stoneCounted(S, c, moveTime, B, cc) ==
  LET recorded ==
        [S EXCEPT
           !.board = [B EXCEPT !.groupCache = cc.gc, !.libertyCache = cc.lc],
           !.captured[S.currentPlayer] = @ + Len(cc.captured) + 1,
           !.history = Append(@, [x |-> c[1], y |-> c[2], player |-> S.currentPlayer,
                                  captures |-> cc.captured])]
  IN [ret |-> TRUE,
      obj |-> S_scheduleIfAI(S_checkGameEnd(S_cacheGameState(
                [S_updateTime(recorded, S.currentPlayer, moveTime) EXCEPT
                   !.passCount = 0,
                   !.moveCount = @ + 1,
                   !.currentPlayer = IF @ = 1 THEN 2 ELSE 1])))]

\* makeMove lines 1692-1704: the move is recorded, with B the board after
\* placeStone and cc the result of the second checkCaptures
S_makeMoveRecord(S, c, moveTime, B, cc) ==
  LET recorded ==
        [S EXCEPT
           !.board = [B EXCEPT !.groupCache = cc.gc, !.libertyCache = cc.lc],
           !.captured[S.currentPlayer] = @ + Len(cc.captured),
           !.history = Append(@, [x |-> c[1], y |-> c[2], player |-> S.currentPlayer,
                                  captures |-> cc.captured])]
  IN [ret |-> TRUE,
      obj |-> S_scheduleIfAI(S_checkGameEnd(S_cacheGameState(
                [S_updateTime(recorded, S.currentPlayer, moveTime) EXCEPT
                   !.passCount = 0,
                   !.moveCount = @ + 1,
                   !.currentPlayer = IF @ = 1 THEN 2 ELSE 1])))]

\* makeMove lines 1691-1707, with r the outcome of board.placeStone
S_makeMovePlaced(S, c, moveTime, r) ==
  IF ~r.ret THEN [ret |-> FALSE, obj |-> [S EXCEPT !.board = r.obj]]
  ELSE S_makeMoveRecord(S, c, moveTime, r.obj,
         checkCaptures(r.obj.board, r.obj.groupCache, r.obj.libertyCache,
                       c, S.currentPlayer))

\* makeMove without the test of gameState
S_makeMove_anyState(S, x, y, moveTime) ==
  IF ~isValidMove(S.board, x, y, S.currentPlayer) THEN [ret |-> FALSE, obj |-> S]
  ELSE S_makeMovePlaced(S, <<x, y>>, moveTime,
                        placeStone(S.board, x, y, S.currentPlayer))

\* makeMove(x, y), taking moveTime ticks: the value returned and the object
\* afterwards
S_makeMove(S, x, y, moveTime) ==
  IF S.gameState # "active" THEN [ret |-> FALSE, obj |-> S]
  ELSE IF ~isValidMove(S.board, x, y, S.currentPlayer) THEN [ret |-> FALSE, obj |-> S]
  ELSE S_makeMovePlaced(S, <<x, y>>, moveTime,
                        placeStone(S.board, x, y, S.currentPlayer))

\* passMove(): the value returned and the object afterwards
S_passMove(S) ==
  IF S.gameState # "active" THEN [ret |-> FALSE, obj |-> S]
  ELSE [ret |-> TRUE,
        obj |-> S_scheduleIfAI(S_checkGameEnd(S_cacheGameState(S_updateTime(
                  [S EXCEPT
                     !.history = Append(@, [x |-> S_null, y |-> S_null,
                                            player |-> S.currentPlayer,
                                            captures |-> <<>>]),
                     !.passCount = @ + 1,
                     !.moveCount = @ + 1,
                     !.currentPlayer = IF @ = 1 THEN 2 ELSE 1],
                  IF S.currentPlayer = 1 THEN 2 ELSE 1, 0))))]

\* undoMove(): the value returned and the object afterwards
S_undoMove(S) ==
  IF Len(S.history) = 0 THEN [ret |-> FALSE, obj |-> S]
  ELSE
    LET lastMove == S.history[Len(S.history)]
        rest == SubSeq(S.history, 1, Len(S.history) - 1)
        placed == lastMove.x # S_null /\ lastMove.y # S_null
    IN [ret |-> TRUE,
        obj |-> [S EXCEPT
          !.history = rest,
          !.board = IF placed THEN undoMove(@) ELSE @,
          !.captured[lastMove.player] =
             IF placed THEN @ - Len(lastMove.captures) ELSE @,
          !.currentPlayer = lastMove.player,
          !.passCount = IF Len(rest) > 0 /\ rest[Len(rest)].x = S_null
                        THEN @ - 1 ELSE 0,
          !.moveCount = @ - 1,
          !.gameState = "active",
          !.stateCache = <<>>]]

\* resetGame(): a new GoBoard and the fields of a new game.  stopTimers
\* clears the two move clocks only, so the callbacks of scheduleAIMove stay
\* with setTimeout; all of them are older than this reset
S_resetGame(S) ==
  [S EXCEPT !.board = newGoBoard,
            !.currentPlayer = 1,
            !.history = <<>>,
            !.captured = [p \in Players |-> 0],
            !.gameState = "active",
            !.time = [p \in Players |-> timeSettings.mainTime],
            !.byoyomi = [p \in Players |-> timeSettings.byoyomi],
            !.byoyomiPeriods = [p \in Players |-> timeSettings.periods],
            !.moveCount = 0,
            !.passCount = 0,
            !.scoreCache = <<>>,
            !.stateCache = <<>>,
            !.staleTimers = S.aiTimers]

\* setMode(mode), for the aiPlayer that the mode stands for
S_setMode(S, aiPlayer) == S_resetGame([S EXCEPT !.aiPlayer = aiPlayer])

\* generateAIMove(): the moves it can return.  board.emptyCells lists the
\* empty cells
S_generateAIMove(S) ==
  IF S.passCount >= 2
     \/ \A c \in Cells : ~isValidMove(S.board, c[1], c[2], S.currentPlayer)
  THEN {[pass |-> TRUE, x |-> S_null, y |-> S_null]}
  ELSE {[pass |-> FALSE, x |-> c[1], y |-> c[2]] :
          c \in {d \in Cells : isValidMove(S.board, d[1], d[2], S.currentPlayer)}}

\* the callback of scheduleAIMove when its timeout ends, for the move that
\* generateAIMove returned and the moveTime that makeMove measures; stale
\* tells whether the callback was scheduled before the latest resetGame
S_aiCallback(S, stale, move, moveTime) ==
  LET fired == [S EXCEPT !.aiTimers = @ - 1,
                         !.staleTimers = IF stale THEN @ - 1 ELSE @]
  IN IF S.gameState # "active" THEN fired
     ELSE IF move.pass THEN S_passMove(fired).obj
     ELSE S_makeMove(fired, move.x, move.y, moveTime).obj

(***************************************************************************)
(* GoRules (src/unnamed/part_002 lines 13-263), names prefixed R_ where    *)
(* GoBoard has a method of the same name.  Its board is the GoBoard held   *)
(* in the board variables.  Komi is a whole number of points.  The Set     *)
(* sekiRegions is written by updateSekiRegions only, which is not among    *)
(* the operations modelled, so it stays empty.  No cache reaches           *)
(* lruCacheLimit (1000) within the bounds, so lruCache removes nothing.    *)
(***************************************************************************)
R_this ==
  [board |-> this, komi |-> r_komi, scoreCache |-> r_scoreCache,
   sekiRegions |-> {}, gameStateCache |-> r_gameStateCache]

\* new GoRules(board, 0)
R_newGoRules ==
  [board |-> newGoBoard, komi |-> 0, scoreCache |-> EmptyMap,
   sekiRegions |-> {}, gameStateCache |-> EmptyMap]

\* clearCaches(): the object afterwards
R_clearCaches(R) == [R EXCEPT !.scoreCache = EmptyMap, !.gameStateCache = EmptyMap]

\* setKomi(komi): the object afterwards
setKomi(R, komi) == R_clearCaches([R EXCEPT !.komi = komi])

\* resignGame(player): the object afterwards
resignGame(R, player) ==
  R_clearCaches([R EXCEPT !.gameStateCache = ("resignation" :> player) @@ @])

\* timeoutGame(player): the object afterwards
timeoutGame(R, player) ==
  R_clearCaches([R EXCEPT !.gameStateCache = ("timeout" :> player) @@ @])

isGameOverByResignation(R, player) ==
  "resignation" \in DOMAIN R.gameStateCache /\ R.gameStateCache["resignation"] = player

isGameOverByTimeout(R, player) ==
  "timeout" \in DOMAIN R.gameStateCache /\ R.gameStateCache["timeout"] = player

\* the for-loop over the neighbours of the popped cell in GoBoard.floodFill
RECURSIVE floodVisit(_, _, _)
floodVisit(b, nbrs, st) ==
  IF nbrs = <<>> THEN st
  ELSE LET n == Head(nbrs) IN
       IF b[n] = 0 /\ n \notin st.visited
       THEN floodVisit(b, Tail(nbrs),
                       [st EXCEPT !.stack = Append(@, n), !.visited = @ \cup {n}])
       ELSE floodVisit(b, Tail(nbrs), st)

\* the while (stack.length) loop of GoBoard.floodFill
RECURSIVE floodLoop(_, _)
floodLoop(b, st) ==
  IF st.stack = <<>> THEN st.region
  ELSE LET cur == st.stack[Len(st.stack)]
           popped == [st EXCEPT !.stack = SubSeq(@, 1, Len(@) - 1),
                                !.region = Append(@, cur)]
       IN floodLoop(b, floodVisit(b, getNeighbors(cur), popped))

\* GoBoard.floodFill(x, y)
floodFill(b, c) == floodLoop(b, [region |-> <<>>, stack |-> <<c>>, visited |-> {c}])

\* the neighbours of the cells of a region, cell after cell
RECURSIVE regionNeighbors(_)
regionNeighbors(region) ==
  IF region = <<>> THEN <<>>
  ELSE getNeighbors(Head(region)) \o regionNeighbors(Tail(region))

\* the Set surrounds of the scoring methods: the colours of the stones next
\* to the region
surroundsOf(b, region) ==
  {b[n] : n \in {m \in Range(regionNeighbors(region)) : b[m] # 0}}

\* the loops of isSekiRegion over the neighbours of the region: isSeki is
\* asked for every stone among them, and the colours of those in seki are
\* collected
RECURSIVE sekiSurrounds(_, _, _)
sekiSurrounds(b, nbrs, acc) ==
  IF nbrs = <<>> THEN acc
  ELSE LET n == Head(nbrs) IN
       IF b[n] # 0
       THEN LET s == isSeki(b, acc.gc, acc.lc, acc.sc, n) IN
            sekiSurrounds(b, Tail(nbrs),
              [surrounds |-> IF s.val THEN acc.surrounds \cup {b[n]} ELSE acc.surrounds,
               gc |-> s.gc, lc |-> s.lc, sc |-> s.sc])
       ELSE sekiSurrounds(b, Tail(nbrs), acc)

\* isSekiRegion lines 183-191, with acc the outcome of the loops
isSekiRegionResult(acc) ==
  [val |-> Cardinality(acc.surrounds) >= 2, gc |-> acc.gc, lc |-> acc.lc, sc |-> acc.sc]

\* isSekiRegion(x, y): the value returned and the board's caches afterwards
isSekiRegion(sekiRegions, b, gc, lc, sc, c) ==
  IF c \in sekiRegions THEN [val |-> TRUE, gc |-> gc, lc |-> lc, sc |-> sc]
  ELSE IF b[c] # 0 THEN isSeki(b, gc, lc, sc, c)
  ELSE isSekiRegionResult(
         sekiSurrounds(b, regionNeighbors(floodFill(b, c)),
                       [surrounds |-> {}, gc |-> gc, lc |-> lc, sc |-> sc]))

\* the two if statements that credit a region to the colour surrounding it
creditRegion(score, region, surrounds) ==
  IF surrounds = {1} THEN [score EXCEPT ![1] = @ + Len(region)]
  ELSE IF surrounds = {2} THEN [score EXCEPT ![2] = @ + Len(region)]
  ELSE score

\* calculateScoreJapanese lines 58-68 for one empty cell not yet visited,
\* with seki the outcome of isSekiRegion
japaneseCell(b, c, acc, seki) ==
  IF seki.val
  THEN [acc EXCEPT !.gc = seki.gc, !.lc = seki.lc, !.sc = seki.sc]
  ELSE [score |-> creditRegion(acc.score, floodFill(b, c),
                               surroundsOf(b, floodFill(b, c))),
        visited |-> acc.visited \cup Range(floodFill(b, c)),
        gc |-> seki.gc, lc |-> seki.lc, sc |-> seki.sc]

\* the two for-loops of calculateScoreJapanese over the cells
RECURSIVE japaneseLoop(_, _, _, _)
japaneseLoop(sekiRegions, b, i, acc) ==
  IF i > Size * Size THEN acc
  ELSE LET c == <<(i - 1) \div Size, (i - 1) % Size>> IN
       IF b[c] = 0 /\ c \notin acc.visited
       THEN japaneseLoop(sekiRegions, b, i + 1,
              japaneseCell(b, c, acc,
                           isSekiRegion(sekiRegions, b, acc.gc, acc.lc, acc.sc, c)))
       ELSE japaneseLoop(sekiRegions, b, i + 1, acc)

\* the result object of the scoring methods
scoreResult(score) ==
  [black |-> score[1], white |-> score[2],
   winner |-> IF score[1] > score[2] THEN 1 ELSE 2]

\* the end of a scoring method: the result is cached under cacheKey and
\* returned, and the board keeps the caches that isSeki has filled
scored(R, cacheKey, acc) ==
  [val |-> scoreResult(acc.score),
   obj |-> [R EXCEPT !.scoreCache = (cacheKey :> scoreResult(acc.score)) @@ @,
                     !.board.groupCache = acc.gc,
                     !.board.libertyCache = acc.lc,
                     !.board.sekiCache = acc.sc]]

\* the score before the loops: each colour starts with the other colour's
\* capture tally, white with komi on top
initialScore(R) ==
  (1 :> R.board.captured[2]) @@ (2 :> R.board.captured[1] + R.komi)

\* calculateScoreJapanese(): the value returned and the object afterwards
calculateScoreJapanese(R) ==
  IF <<"japanese", getBoardStateString(R.board.board)>> \in DOMAIN R.scoreCache
  THEN [val |-> R.scoreCache[<<"japanese", getBoardStateString(R.board.board)>>],
        obj |-> R]
  ELSE scored(R, <<"japanese", getBoardStateString(R.board.board)>>,
              japaneseLoop(R.sekiRegions, R.board.board, 1,
                [score |-> initialScore(R), visited |-> {},
                 gc |-> R.board.groupCache, lc |-> R.board.libertyCache,
                 sc |-> R.board.sekiCache]))

\* calculateScoreChinese lines 86-96 for one empty cell, with seki the
\* outcome of isSekiRegion
chineseCell(b, c, acc, seki) ==
  [score |-> IF seki.val THEN acc.score
             ELSE creditRegion(acc.score, floodFill(b, c),
                               surroundsOf(b, floodFill(b, c))),
   gc |-> seki.gc, lc |-> seki.lc, sc |-> seki.sc]

\* the two for-loops of calculateScoreChinese over the cells
RECURSIVE chineseLoop(_, _, _, _)
chineseLoop(sekiRegions, b, i, acc) ==
  IF i > Size * Size THEN acc
  ELSE LET c == <<(i - 1) \div Size, (i - 1) % Size>> IN
       IF b[c] = 0
       THEN chineseLoop(sekiRegions, b, i + 1,
              chineseCell(b, c, acc,
                          isSekiRegion(sekiRegions, b, acc.gc, acc.lc, acc.sc, c)))
       ELSE chineseLoop(sekiRegions, b, i + 1,
                        [acc EXCEPT !.score[b[c]] = @ + 1])

\* calculateScoreChinese(): the value returned and the object afterwards
calculateScoreChinese(R) ==
  IF <<"chinese", getBoardStateString(R.board.board)>> \in DOMAIN R.scoreCache
  THEN [val |-> R.scoreCache[<<"chinese", getBoardStateString(R.board.board)>>],
        obj |-> R]
  ELSE scored(R, <<"chinese", getBoardStateString(R.board.board)>>,
              chineseLoop(R.sekiRegions, R.board.board, 1,
                [score |-> initialScore(R),
                 gc |-> R.board.groupCache, lc |-> R.board.libertyCache,
                 sc |-> R.board.sekiCache]))

(***************************************************************************)
(* GoAI, Node and TranspositionTable (js/utils.js lines 361-622).  The     *)
(* search tree is a sequence of Node records: a node is named by its index *)
(* (the root is 1, its parent 0) and children holds indices in the order   *)
(* of creation.  wins is counted in half points (a result is 0, 1 or 2 for *)
(* the code's 0, 0.5 and 1, and 1 - result is 2 - result).                 *)
(***************************************************************************)
\* the constructor's default player
AIPlayer == 1

\* the results of simulate(): loss, draw, win
Results == {0, 1, 2}

\* the cells in the order of the loops "for x ... for y ..."
CellSeq == [i \in 1 .. Size * Size |-> <<(i - 1) \div Size, (i - 1) % Size>>]

\* Node.getLegalMoves(): isValidMove is called without a player
getLegalMoves(B) ==
  SelectSeq(CellSeq, LAMBDA c : isValidMove(B, c[1], c[2], Null))

\* new Node(board, move, parent, player)
newNode(B, move, parent, player) ==
  [board |-> B.board, move |-> move, parent |-> parent, player |-> player,
   children |-> <<>>, visits |-> 0, wins |-> 0,
   untriedMoves |-> getLegalMoves(B)]

\* Node.addChild(move, player) on node id: the child is the last node.  Of
\* the new board only the grid is kept; the players of a search are 1 and -1
addChild(nodes, id, move, player) ==
  Append([nodes EXCEPT ![id].untriedMoves = SelectSeq(@, LAMBDA m : m # move),
                       ![id].children = Append(@, Len(nodes) + 1)],
         newNode(placeStone([newGoBoard EXCEPT !.board = nodes[id].board],
                            move[1], move[2], player).obj,
                 move, id, player))

\* the mutated update: a visit is counted twice
update_countedTwice(node, result) ==
  [node EXCEPT !.visits = @ + 2, !.wins = @ + result]

\* Node.update(result)
update(node, result) ==
  [node EXCEPT !.visits = @ + 1, !.wins = @ + result]

\* mcts lines 518-522: the descent from node id.  selectChild compares
\* real-valued UCT scores; here it may return any child
RECURSIVE descend(_, _, _)
descend(nodes, id, currentPlayer) ==
  IF Len(nodes[id].untriedMoves) = 0 /\ Len(nodes[id].children) > 0
  THEN UNION {descend(nodes, ch, -currentPlayer) : ch \in Range(nodes[id].children)}
  ELSE {[node |-> id, currentPlayer |-> currentPlayer]}

\* mcts lines 524-529: a random untried move of the node is expanded
expand(nodes, sel) ==
  IF Len(nodes[sel.node].untriedMoves) > 0
  THEN {[nodes |-> addChild(nodes, sel.node, move, sel.currentPlayer),
         node |-> Len(nodes) + 1] :
          move \in Range(nodes[sel.node].untriedMoves)}
  ELSE {[nodes |-> nodes, node |-> sel.node]}

\* mcts lines 531-536: the result is handed up to the root
RECURSIVE backpropagate(_, _, _)
backpropagate(nodes, id, result) ==
  IF id = 0 THEN nodes
  ELSE backpropagate([nodes EXCEPT ![id] = update(@, result)],
                     nodes[id].parent, 2 - result)

\* one iteration of the loop of mcts(root): the trees it can leave.  The
\* playout of simulate is random; its result is any of the three
mctsIteration(nodes, player) ==
  {backpropagate(e.nodes, e.node, result) :
     e \in UNION {expand(nodes, sel) : sel \in descend(nodes, 1, player)},
     result \in Results}

\* the callback of the reduce of getBestMove, applied along the children
RECURSIVE reduceBest(_, _, _)
reduceBest(nodes, best, rest) ==
  IF Len(rest) = 0 THEN best
  ELSE reduceBest(nodes,
                  IF nodes[Head(rest)].visits > nodes[best].visits
                  THEN Head(rest) ELSE best,
                  Tail(rest))

\* the mutated reduce: a later child wins a tie
RECURSIVE reduceBest_lastOfTies(_, _, _)
reduceBest_lastOfTies(nodes, best, rest) ==
  IF Len(rest) = 0 THEN best
  ELSE reduceBest_lastOfTies(nodes,
                  IF nodes[Head(rest)].visits >= nodes[best].visits
                  THEN Head(rest) ELSE best,
                  Tail(rest))

\* the mutated bestChild
bestChild_lastOfTies(nodes) ==
  IF Len(nodes[1].children) = 0 THEN 0
  ELSE reduceBest_lastOfTies(nodes, nodes[1].children[1], nodes[1].children)

\* root.children.reduce(..., root.children[0]): 0 stands for undefined
bestChild(nodes) ==
  IF Len(nodes[1].children) = 0 THEN 0
  ELSE reduceBest(nodes, nodes[1].children[1], nodes[1].children)

\* TranspositionTable.hashBoard(board): the rows joined
hashBoard(b) == [i \in 1 .. Size * Size |-> b[CellSeq[i]]]

\* GoAI.getRandomMove(): the moves it can return (Null when none is valid)
getRandomMove(B) ==
  IF Len(getLegalMoves(B)) = 0 THEN {Null} ELSE Range(getLegalMoves(B))

\* GoAI.nnEvaluate(board, player): the network's weights are random, so
\* any valid move can have the highest probability
nnEvaluate(B) ==
  IF Len(getLegalMoves(B)) = 0 THEN {Null} ELSE Range(getLegalMoves(B))

\* Node.isFullyExpanded()
isFullyExpanded(node) == Len(node.untriedMoves) = 0

\* mcts line 518: the test of the descent
descends(node) == isFullyExpanded(node) /\ Len(node.children) > 0

\* the mutated test of the playout: the cap is left out
simulateContinues_uncapped(B, moves) == Len(getLegalMoves(B)) > 0

\* simulate lines 489-491: the playout goes on while moves < 100 and
\* getRandomMove(), which reads the AI's own board, returns a move
simulateContinues(B, moves) ==
  moves < playoutCap /\ Len(getLegalMoves(B)) > 0

\* parallelMcts line 558: Math.ceil(simCount / workerCount)
chunkSize(simCount, workerCount) ==
  (simCount + workerCount - 1) \div workerCount

\* parallelMcts lines 561-563: the root of a worker's tree, on a new GoBoard
\* holding a copy of the grid
workerRoot(b) ==
  newNode([newGoBoard EXCEPT !.board = b], Null, 0, AIPlayer)

\* the position in root.children of the first child with the move, or 0
RECURSIVE findMove(_, _, _, _)
findMove(trees, refs, move, i) ==
  IF i > Len(refs) THEN 0
  ELSE IF trees[refs[i].worker][refs[i].node].move = move THEN i
  ELSE findMove(trees, refs, move, i + 1)

\* the mutated merge step: the child is appended whatever the root holds
mergeChild_alwaysAppended(acc, w, ch, found) ==
  [acc EXCEPT !.root = Append(@, [worker |-> w, node |-> ch])]

\* parallelMcts lines 597-604 for child ch of worker w's root: acc holds
\* root.children, as references to nodes of the workers' trees, and the
\* trees; found is the position of the existing child, or 0
mergeChild(acc, w, ch, found) ==
  IF found # 0
  THEN [acc EXCEPT
          !.trees[acc.root[found].worker][acc.root[found].node].visits =
             @ + acc.trees[w][ch].visits,
          !.trees[acc.root[found].worker][acc.root[found].node].wins =
             @ + acc.trees[w][ch].wins]
  ELSE [acc EXCEPT !.root = Append(@, [worker |-> w, node |-> ch])]

\* parallelMcts lines 595-606: the loops over the workers' roots and their
\* children, from child i of worker w on
RECURSIVE mergeLoop(_, _, _)
mergeLoop(acc, w, i) ==
  IF w > Len(acc.trees) THEN acc
  ELSE IF i > Len(acc.trees[w][1].children) THEN mergeLoop(acc, w + 1, 1)
  ELSE mergeLoop(
         mergeChild(acc, w, acc.trees[w][1].children[i],
                    findMove(acc.trees, acc.root,
                             acc.trees[w][acc.trees[w][1].children[i]].move, 1)),
         w, i + 1)

(***************************************************************************)
(* GameController of src/js/main.js, names prefixed M_.  Its session       *)
(* this.game is the exported GoGame, held in the board and s_ variables;   *)
(* its own GoBoard this.board, the board the GoAI is constructed on, is    *)
(* m_board.  aiPlayer is 0 for null.  timers counts the callbacks of       *)
(* makeAIMove that setTimeout holds.                                       *)
(***************************************************************************)
M_this ==
  [board |-> m_board, game |-> S_this, mode |-> m_mode, aiPlayer |-> m_aiPlayer,
   gameState |-> m_gameState, timers |-> m_timers]

\* new GameController(canvasId, boardSize)
M_newGameController ==
  [board |-> newGoBoard, game |-> S_newGoGame, mode |-> "human-vs-human",
   aiPlayer |-> 0, gameState |-> "idle", timers |-> 0]

\* this.game.getCurrentPlayer(): the player to move
M_getCurrentPlayer(S) == S.currentPlayer

\* this.game.getGameStatus().ended: the session is no longer active
M_getGameStatusEnded(S) == S.gameState # "active"

\* makeAIMove(): setTimeout holds one more callback
M_makeAIMove(M) ==
  IF M.gameState # "playing" THEN M ELSE [M EXCEPT !.timers = @ + 1]

\* checkGameEnd()
M_checkGameEnd(M) ==
  IF M_getGameStatusEnded(M.game) THEN [M EXCEPT !.gameState = "ended"] ELSE M

\* startGame(): a new session, a new GoBoard and a GoAI on that GoBoard
M_startGame(M) ==
  LET started == [M EXCEPT !.gameState = "playing", !.game = S_newGoGame,
                           !.board = newGoBoard]
  IN IF \/ started.mode = "ai-vs-ai"
        \/ /\ started.mode = "human-vs-ai"
           /\ M_getCurrentPlayer(started.game) = started.aiPlayer
     THEN M_makeAIMove(started)
     ELSE started

\* changeMode(event) with event.target.value = mode
M_changeMode(M, mode) ==
  M_startGame([M EXCEPT !.mode = mode,
                        !.aiPlayer = IF mode = "human-vs-ai" THEN -1 ELSE 0])

\* passTurn(): this.game.pass() is the pass of the session
M_passTurn(M) ==
  IF M.gameState # "playing" THEN M
  ELSE LET passed == M_checkGameEnd([M EXCEPT !.game = S_passMove(M.game).obj])
       IN IF passed.mode # "human-vs-human" /\ passed.gameState = "playing"
          THEN M_makeAIMove(passed)
          ELSE passed

\* GoUI.handleClick(event) on the intersection (x, y): the session's makeMove
M_handleClick(M, x, y, moveTime) ==
  IF ~isValidMove(M.game.board, x, y, Null) THEN M
  ELSE [M EXCEPT !.game = S_makeMove(M.game, x, y, moveTime).obj]

\* the moves that this.ai.getBestMoveParallel() can return for a GoAI on the
\* board B: the move of a child of the root or of getRandomMove, which is a
\* legal move on B, and null when B has none
M_getBestMoveParallel(B) ==
  IF getLegalMoves(B) = <<>> THEN {Null} ELSE Range(getLegalMoves(B))

\* the callback of makeAIMove when its timeout ends, for the move that
\* getBestMoveParallel returned
M_aiCallback(M, move, moveTime) ==
  LET fired == [M EXCEPT !.timers = @ - 1]
      moved == IF move = Null THEN fired
               ELSE M_checkGameEnd(
                      [fired EXCEPT
                         !.game = S_makeMove(fired.game, move[1], move[2],
                                             moveTime).obj])
  IN IF moved.mode = "ai-vs-ai" /\ moved.gameState = "playing"
     THEN M_makeAIMove(moved)
     ELSE moved

(***************************************************************************)
(* State machine                                                           *)
(***************************************************************************)
setBoard(B) ==
  /\ board' = B.board
  /\ bitBoardBlack' = B.bitBoardBlack
  /\ bitBoardWhite' = B.bitBoardWhite
  /\ koPoint' = B.koPoint
  /\ superKoHistory' = B.superKoHistory
  /\ captured' = B.captured
  /\ moveHistory' = B.moveHistory
  /\ groupCache' = B.groupCache
  /\ libertyCache' = B.libertyCache
  /\ sekiCache' = B.sekiCache
  /\ eyeCache' = B.eyeCache
  /\ territoryCache' = B.territoryCache

setSession(S) ==
  /\ setBoard(S.board)
  /\ s_currentPlayer' = S.currentPlayer
  /\ s_history' = S.history
  /\ s_captured' = S.captured
  /\ s_gameState' = S.gameState
  /\ s_moveCount' = S.moveCount
  /\ s_passCount' = S.passCount
  /\ s_time' = S.time
  /\ s_byoyomi' = S.byoyomi
  /\ s_byoyomiPeriods' = S.byoyomiPeriods
  /\ s_aiPlayer' = S.aiPlayer
  /\ s_aiTimers' = S.aiTimers
  /\ s_staleTimers' = S.staleTimers
  /\ s_scoreCache' = S.scoreCache
  /\ s_stateCache' = S.stateCache

\* the outcome r of a session operation is stored
setSessionResult(r) == setSession(r.obj) /\ ret' = r.ret

setRules(R) ==
  /\ setBoard(R.board)
  /\ r_komi' = R.komi
  /\ r_scoreCache' = R.scoreCache
  /\ r_gameStateCache' = R.gameStateCache

setGame(G) ==
  /\ g_board' = G.board
  /\ g_currentPlayer' = G.currentPlayer
  /\ g_captures' = G.captures
  /\ g_history' = G.history
  /\ g_koPoint' = G.koPoint
  /\ g_consecutivePasses' = G.consecutivePasses
  /\ g_gameOver' = G.gameOver
  /\ g_winner' = G.winner
  /\ g_deadStones' = G.deadStones

Init ==
  /\ board = newGoBoard.board
  /\ bitBoardBlack = newGoBoard.bitBoardBlack
  /\ bitBoardWhite = newGoBoard.bitBoardWhite
  /\ koPoint = newGoBoard.koPoint
  /\ superKoHistory = newGoBoard.superKoHistory
  /\ captured = newGoBoard.captured
  /\ moveHistory = newGoBoard.moveHistory
  /\ groupCache = newGoBoard.groupCache
  /\ libertyCache = newGoBoard.libertyCache
  /\ sekiCache = newGoBoard.sekiCache
  /\ eyeCache = newGoBoard.eyeCache
  /\ territoryCache = newGoBoard.territoryCache
  /\ g_board = G_newGoGame.board
  /\ g_currentPlayer = G_newGoGame.currentPlayer
  /\ g_captures = G_newGoGame.captures
  /\ g_history = G_newGoGame.history
  /\ g_koPoint = G_newGoGame.koPoint
  /\ g_consecutivePasses = G_newGoGame.consecutivePasses
  /\ g_gameOver = G_newGoGame.gameOver
  /\ g_winner = G_newGoGame.winner
  /\ g_deadStones = G_newGoGame.deadStones
  /\ gc_mode = GC_newGameController.mode
  /\ gc_isAIThinking = GC_newGameController.isAIThinking
  /\ gc_isDeadMarkingMode = GC_newGameController.isDeadMarkingMode
  /\ gc_aiMessages = GC_newGameController.aiMessages
  /\ gc_aiWorker = GC_newGameController.aiWorker
  /\ gc_onmessage = GC_newGameController.onmessage
  /\ gc_hintPosition = GC_newGameController.hintPosition
  /\ s_currentPlayer = S_newGoGame.currentPlayer
  /\ s_history = S_newGoGame.history
  /\ s_captured = S_newGoGame.captured
  /\ s_gameState = S_newGoGame.gameState
  /\ s_moveCount = S_newGoGame.moveCount
  /\ s_passCount = S_newGoGame.passCount
  /\ s_time = S_newGoGame.time
  /\ s_byoyomi = S_newGoGame.byoyomi
  /\ s_byoyomiPeriods = S_newGoGame.byoyomiPeriods
  /\ s_aiPlayer = S_newGoGame.aiPlayer
  /\ s_aiTimers = S_newGoGame.aiTimers
  /\ s_staleTimers = S_newGoGame.staleTimers
  /\ s_scoreCache = S_newGoGame.scoreCache
  /\ s_stateCache = S_newGoGame.stateCache
  /\ r_komi = R_newGoRules.komi
  /\ r_scoreCache = R_newGoRules.scoreCache
  /\ r_gameStateCache = R_newGoRules.gameStateCache
  /\ ai_pc = "idle"
  /\ ai_nodes = <<>>
  /\ ai_iter = 0
  /\ ai_table = EmptyMap
  /\ ai_from = "none"
  /\ mcts_pc = "loop"
  /\ mcts_node = 0
  /\ mcts_currentPlayer = AIPlayer
  /\ mcts_moves = 0
  /\ mcts_result = 0
  /\ m_board = M_newGameController.board
  /\ m_mode = M_newGameController.mode
  /\ m_aiPlayer = M_newGameController.aiPlayer
  /\ m_gameState = M_newGameController.gameState
  /\ m_timers = M_newGameController.timers
  /\ par_pc = "idle"
  /\ par_simCount = 0
  /\ par_workerCount = 0
  /\ par_workers = <<>>
  /\ par_j = 0
  /\ par_root = <<>>
  /\ par_results = <<>>
  /\ par_playouts = 0
  /\ op = "new"
  /\ ret = TRUE
  /\ steps = 0
  /\ placedGrids = {}

\* the outcome r of a placeStone is stored; placedGrids collects the grids
\* left by the successful ones
setPlaced(r) ==
  /\ setBoard(r.obj)
  /\ ret' = r.ret
  /\ placedGrids' = IF r.ret THEN placedGrids \cup {r.obj.board} ELSE placedGrids

\* board.placeStone(x, y, player)
PlaceStone(x, y, player) ==
  /\ setPlaced(placeStone(this, x, y, player))
  /\ op' = "placeStone"
  /\ steps' = steps + 1
  /\ UNCHANGED <<mainVars, searchVars, gameVars, sessionVars, rulesVars, aiVars, parVars, ctlVars>>

\* board.undoMove()
UndoMove ==
  /\ setBoard(undoMove(this))
  /\ op' = "undoMove"
  /\ ret' = TRUE
  /\ steps' = steps + 1
  /\ UNCHANGED <<mainVars, searchVars, placedGrids, gameVars, sessionVars, rulesVars, aiVars, parVars, ctlVars>>

\* board.handleEternalLife()
HandleEternalLife ==
  /\ setBoard(handleEternalLife(this).obj)
  /\ op' = "handleEternalLife"
  /\ ret' = handleEternalLife(this).ret
  /\ steps' = steps + 1
  /\ UNCHANGED <<mainVars, searchVars, placedGrids, gameVars, sessionVars, rulesVars, aiVars, parVars, ctlVars>>

\* board.markDeadGroups(player, deadPoints)
MarkDeadGroups(player, deadPoints) ==
  /\ setBoard(markDeadGroups(this, player, deadPoints))
  /\ op' = "markDeadGroups"
  /\ ret' = TRUE
  /\ steps' = steps + 1
  /\ UNCHANGED <<mainVars, searchVars, placedGrids, gameVars, sessionVars, rulesVars, aiVars, parVars, ctlVars>>

\* game.placeStone(x, y)
G_PlaceStone(x, y) ==
  /\ steps < MaxGameSteps
  /\ LET r == G_placeStone(G_this, x, y) IN setGame(r.obj) /\ ret' = r.ret
  /\ op' = "G_placeStone"
  /\ steps' = steps + 1
  /\ UNCHANGED <<mainVars, searchVars, boardVars, sessionVars, rulesVars, aiVars, parVars, ctlVars>>

\* game.pass()
G_Pass ==
  /\ steps < MaxGameSteps
  /\ LET r == G_pass(G_this) IN setGame(r.obj) /\ ret' = r.ret
  /\ op' = "G_pass"
  /\ steps' = steps + 1
  /\ UNCHANGED <<mainVars, searchVars, boardVars, sessionVars, rulesVars, aiVars, parVars, ctlVars>>

\* game.undo()
G_Undo ==
  /\ steps < MaxGameSteps
  /\ LET r == G_undo(G_this) IN setGame(r.obj) /\ ret' = r.ret
  /\ op' = "G_undo"
  /\ steps' = steps + 1
  /\ UNCHANGED <<mainVars, searchVars, boardVars, sessionVars, rulesVars, aiVars, parVars, ctlVars>>

G_Resign ==
  /\ steps < MaxGameSteps
  /\ LET r == G_resign(G_this) IN setGame(r.obj) /\ ret' = r.ret
  /\ op' = "G_resign"
  /\ steps' = steps + 1
  /\ UNCHANGED <<mainVars, searchVars, boardVars, sessionVars, rulesVars, aiVars, parVars, ctlVars>>

\* the controller C is stored
setController(C) ==
  /\ setGame(C.game)
  /\ gc_mode' = C.mode
  /\ gc_isAIThinking' = C.isAIThinking
  /\ gc_isDeadMarkingMode' = C.isDeadMarkingMode
  /\ gc_aiMessages' = C.aiMessages
  /\ gc_aiWorker' = C.aiWorker
  /\ gc_onmessage' = C.onmessage
  /\ gc_hintPosition' = C.hintPosition

\* controller.startNewGame()
GC_StartNewGame(mode) ==
  /\ steps < MaxGameSteps
  /\ setController(GC_startNewGame(GC_this, mode))
  /\ op' = "GC_startNewGame"
  /\ ret' = TRUE
  /\ steps' = steps + 1
  /\ UNCHANGED <<mainVars, searchVars, boardVars, sessionVars, rulesVars, aiVars, parVars>>

\* a click on the canvas at the intersection (x, y); ret keeps the point
GC_HandleCanvasClick(x, y) ==
  /\ steps < MaxGameSteps
  /\ setController(GC_handleCanvasClick(GC_this, x, y))
  /\ op' = "GC_handleCanvasClick"
  /\ ret' = <<x, y>>
  /\ steps' = steps + 1
  /\ UNCHANGED <<mainVars, searchVars, boardVars, sessionVars, rulesVars, aiVars, parVars>>

\* a click on the pass button
GC_HandlePass ==
  /\ steps < MaxGameSteps
  /\ setController(GC_handlePass(GC_this))
  /\ op' = "GC_handlePass"
  /\ ret' = TRUE
  /\ steps' = steps + 1
  /\ UNCHANGED <<mainVars, searchVars, boardVars, sessionVars, rulesVars, aiVars, parVars>>

\* the AI worker answers a message with the move (x, y) while
\* handleAIMove is its handler
GC_HandleAIMove(x, y) ==
  /\ steps < MaxGameSteps
  /\ gc_aiMessages > 0
  /\ gc_onmessage = "handleAIMove"
  /\ setController(GC_handleAIMove(GC_this, x, y))
  /\ op' = "GC_handleAIMove"
  /\ ret' = TRUE
  /\ steps' = steps + 1
  /\ UNCHANGED <<mainVars, searchVars, boardVars, sessionVars, rulesVars, aiVars, parVars>>

\* a click on the resign button
GC_HandleResign ==
  /\ steps < MaxGameSteps
  /\ setController(GC_handleResign(GC_this))
  /\ op' = "GC_handleResign"
  /\ ret' = TRUE
  /\ steps' = steps + 1
  /\ UNCHANGED <<mainVars, searchVars, boardVars, sessionVars, rulesVars, aiVars, parVars>>

\* a click on the undo button
GC_HandleUndo ==
  /\ steps < MaxGameSteps
  /\ setController(GC_handleUndo(GC_this))
  /\ op' = "GC_handleUndo"
  /\ ret' = TRUE
  /\ steps' = steps + 1
  /\ UNCHANGED <<mainVars, searchVars, boardVars, sessionVars, rulesVars, aiVars, parVars>>

\* a click on the hint button
GC_ShowHint ==
  /\ steps < MaxGameSteps
  /\ setController(GC_showHint(GC_this))
  /\ op' = "GC_showHint"
  /\ ret' = TRUE
  /\ steps' = steps + 1
  /\ UNCHANGED <<mainVars, searchVars, boardVars, sessionVars, rulesVars, aiVars, parVars>>

\* the AI worker answers a message with the point (x, y) while the handler
\* of showHint is installed
GC_HintReceived(x, y) ==
  /\ steps < MaxGameSteps
  /\ gc_aiMessages > 0
  /\ gc_onmessage = "hint"
  /\ setController(GC_hintReceived(GC_this, x, y))
  /\ op' = "GC_hintReceived"
  /\ ret' = TRUE
  /\ steps' = steps + 1
  /\ UNCHANGED <<mainVars, searchVars, boardVars, sessionVars, rulesVars, aiVars, parVars>>

\* a click on the resume button of the end-of-game panel
GC_ResumeGame ==
  /\ steps < MaxGameSteps
  /\ gc_isDeadMarkingMode
  /\ setController(GC_resumeGame(GC_this))
  /\ op' = "GC_resumeGame"
  /\ ret' = TRUE
  /\ steps' = steps + 1
  /\ UNCHANGED <<mainVars, searchVars, boardVars, sessionVars, rulesVars, aiVars, parVars>>

\* session.makeMove(x, y), the move taking moveTime ticks
S_MakeMove(x, y, moveTime) ==
  /\ steps < MaxSessionSteps
  /\ setSessionResult(S_makeMove(S_this, x, y, moveTime))
  /\ op' = "S_makeMove"
  /\ steps' = steps + 1
  /\ UNCHANGED <<mainVars, searchVars, placedGrids, gameVars, rulesVars, aiVars, parVars, ctlVars>>

\* session.passMove()
S_PassMove ==
  /\ steps < MaxSessionSteps
  /\ setSessionResult(S_passMove(S_this))
  /\ op' = "S_passMove"
  /\ steps' = steps + 1
  /\ UNCHANGED <<mainVars, searchVars, placedGrids, gameVars, rulesVars, aiVars, parVars, ctlVars>>

\* session.undoMove()
S_UndoMove ==
  /\ steps < MaxSessionSteps
  /\ setSessionResult(S_undoMove(S_this))
  /\ op' = "S_undoMove"
  /\ steps' = steps + 1
  /\ UNCHANGED <<mainVars, searchVars, placedGrids, gameVars, rulesVars, aiVars, parVars, ctlVars>>

\* session.calculateFinalScore()
S_CalculateFinalScore ==
  /\ steps < MaxSessionSteps
  /\ setSessionResult(S_calculateFinalScore(S_this))
  /\ op' = "S_calculateFinalScore"
  /\ steps' = steps + 1
  /\ UNCHANGED <<mainVars, searchVars, placedGrids, gameVars, rulesVars, aiVars, parVars, ctlVars>>

\* session.setMode(mode)
S_SetMode(aiPlayer) ==
  /\ steps < MaxSessionSteps
  /\ setSession(S_setMode(S_this, aiPlayer))
  /\ op' = "S_setMode"
  /\ ret' = TRUE
  /\ steps' = steps + 1
  /\ UNCHANGED <<mainVars, searchVars, placedGrids, gameVars, rulesVars, aiVars, parVars, ctlVars>>

\* session.resetGame()
S_ResetGame ==
  /\ steps < MaxSessionSteps
  /\ setSession(S_resetGame(S_this))
  /\ op' = "S_resetGame"
  /\ ret' = TRUE
  /\ steps' = steps + 1
  /\ UNCHANGED <<mainVars, searchVars, placedGrids, gameVars, rulesVars, aiVars, parVars, ctlVars>>

\* the timeout of a callback of scheduleAIMove ends
S_AICallback(stale) ==
  /\ steps < MaxSessionSteps
  /\ IF stale THEN s_staleTimers > 0 ELSE s_aiTimers > s_staleTimers
  /\ \E move \in S_generateAIMove(S_this), moveTime \in 0 .. MaxMoveTime :
       setSession(S_aiCallback(S_this, stale, move, moveTime))
  /\ op' = IF stale THEN "S_aiCallback_stale" ELSE "S_aiCallback"
  /\ ret' = TRUE
  /\ steps' = steps + 1
  /\ UNCHANGED <<mainVars, searchVars, placedGrids, gameVars, rulesVars, aiVars, parVars, ctlVars>>

\* rules.setKomi(komi)
SetKomi(komi) ==
  /\ steps < MaxRulesSteps
  /\ setRules(setKomi(R_this, komi))
  /\ op' = "setKomi"
  /\ ret' = TRUE
  /\ steps' = steps + 1
  /\ UNCHANGED <<mainVars, searchVars, placedGrids, gameVars, sessionVars, aiVars, parVars, ctlVars>>

\* rules.resignGame(player)
ResignGame(player) ==
  /\ steps < MaxRulesSteps
  /\ setRules(resignGame(R_this, player))
  /\ op' = "resignGame"
  /\ ret' = TRUE
  /\ steps' = steps + 1
  /\ UNCHANGED <<mainVars, searchVars, placedGrids, gameVars, sessionVars, aiVars, parVars, ctlVars>>

\* rules.timeoutGame(player)
TimeoutGame(player) ==
  /\ steps < MaxRulesSteps
  /\ setRules(timeoutGame(R_this, player))
  /\ op' = "timeoutGame"
  /\ ret' = TRUE
  /\ steps' = steps + 1
  /\ UNCHANGED <<mainVars, searchVars, placedGrids, gameVars, sessionVars, aiVars, parVars, ctlVars>>

\* rules.calculateScoreJapanese()
CalculateScoreJapanese ==
  /\ steps < MaxRulesSteps
  /\ setRules(calculateScoreJapanese(R_this).obj)
  /\ op' = "calculateScoreJapanese"
  /\ ret' = TRUE
  /\ steps' = steps + 1
  /\ UNCHANGED <<mainVars, searchVars, placedGrids, gameVars, sessionVars, aiVars, parVars, ctlVars>>

\* rules.calculateScoreChinese()
CalculateScoreChinese ==
  /\ steps < MaxRulesSteps
  /\ setRules(calculateScoreChinese(R_this).obj)
  /\ op' = "calculateScoreChinese"
  /\ ret' = TRUE
  /\ steps' = steps + 1
  /\ UNCHANGED <<mainVars, searchVars, placedGrids, gameVars, sessionVars, aiVars, parVars, ctlVars>>

\* board.calculateTerritoryJapanese(player)
CalculateTerritoryJapanese(player) ==
  /\ LET r == calculateTerritoryJapanese(this, player)
     IN setBoard(r.obj) /\ ret' = r.val
  /\ op' = "calculateTerritoryJapanese"
  /\ steps' = steps + 1
  /\ UNCHANGED <<mainVars, searchVars, placedGrids, gameVars, sessionVars, rulesVars, aiVars, parVars, ctlVars>>

\* the lists of dead points passed to markDeadGroups
DeadPointLists == {<<c>> : c \in Cells}

\* getBestMove() when the table holds a node for the grid
GetBestMoveCached ==
  /\ ai_pc = "idle"
  /\ hashBoard(board) \in DOMAIN ai_table
  /\ ai_table[hashBoard(board)] # Null
  /\ ret' = ai_table[hashBoard(board)]
  /\ ai_from' = "cache"
  /\ op' = "getBestMove"
  /\ steps' = steps + 1
  /\ UNCHANGED <<mainVars, searchVars, boardVars, gameVars, sessionVars, rulesVars, parVars, ctlVars,
                 ai_pc, ai_nodes, ai_iter, ai_table>>

\* getBestMove() on a miss when Math.random() < 0.3
GetBestMoveNN ==
  /\ ai_pc = "idle"
  /\ ~(hashBoard(board) \in DOMAIN ai_table /\ ai_table[hashBoard(board)] # Null)
  /\ ret' \in nnEvaluate(this)
  /\ ai_from' = "nn"
  /\ op' = "getBestMove"
  /\ steps' = steps + 1
  /\ UNCHANGED <<mainVars, searchVars, boardVars, gameVars, sessionVars, rulesVars, parVars, ctlVars,
                 ai_pc, ai_nodes, ai_iter, ai_table>>

\* getBestMove() on a miss otherwise: mcts(root) starts
GetBestMoveSearch ==
  /\ ai_pc = "idle"
  /\ ~(hashBoard(board) \in DOMAIN ai_table /\ ai_table[hashBoard(board)] # Null)
  /\ ai_pc' = "mcts"
  /\ ai_nodes' = <<newNode(this, Null, 0, AIPlayer)>>
  /\ ai_iter' = 0
  /\ ai_from' = "none"
  /\ op' = "mcts"
  /\ steps' = steps + 1
  /\ UNCHANGED <<mainVars, searchVars, boardVars, gameVars, sessionVars, rulesVars, parVars, ctlVars, ai_table, ret>>

\* one iteration of the loop of mcts(root)
MctsIteration ==
  /\ ai_pc = "mcts"
  /\ ai_iter < SimCount
  /\ ai_nodes' \in mctsIteration(ai_nodes, AIPlayer)
  /\ ai_iter' = ai_iter + 1
  /\ op' = "mcts"
  /\ steps' = steps + 1
  /\ UNCHANGED <<mainVars, searchVars, boardVars, gameVars, sessionVars, rulesVars, parVars, ctlVars,
                 ai_pc, ai_table, ai_from, ret>>

\* getBestMove() lines 547-552 after mcts(root)
GetBestMoveReturn ==
  /\ ai_pc = "mcts"
  /\ ai_iter = SimCount
  /\ ai_table' = (hashBoard(board) :>
                    (IF bestChild(ai_nodes) = 0 THEN Null
                     ELSE ai_nodes[bestChild(ai_nodes)].move)) @@ ai_table
  /\ IF bestChild(ai_nodes) = 0 THEN ret' \in getRandomMove(this)
     ELSE ret' = ai_nodes[bestChild(ai_nodes)].move
  /\ ai_pc' = "idle"
  /\ ai_from' = "mcts"
  /\ op' = "getBestMove"
  /\ steps' = steps + 1
  /\ UNCHANGED <<mainVars, searchVars, boardVars, gameVars, sessionVars, rulesVars, parVars, ctlVars, ai_nodes, ai_iter>>

\* mcts lines 512-516: an iteration of the loop starts at the root
MctsLoop ==
  /\ ai_pc = "mcts" /\ mcts_pc = "loop"
  /\ ai_iter < SimCount
  /\ mcts_node' = 1
  /\ mcts_currentPlayer' = AIPlayer
  /\ mcts_pc' = "select"
  /\ op' = "mcts"
  /\ UNCHANGED <<mainVars, boardVars, gameVars, sessionVars, rulesVars, aiVars, parVars, ctlVars,
                 mcts_moves, mcts_result, ret, steps>>

\* mcts lines 518-522: a step of the descent; selectChild compares
\* real-valued UCT scores, here it may return any child
MctsSelectChild ==
  /\ ai_pc = "mcts" /\ mcts_pc = "select"
  /\ descends(ai_nodes[mcts_node])
  /\ mcts_node' \in Range(ai_nodes[mcts_node].children)
  /\ mcts_currentPlayer' = -mcts_currentPlayer
  /\ op' = "selectChild"
  /\ UNCHANGED <<mainVars, boardVars, gameVars, sessionVars, rulesVars, aiVars, parVars, ctlVars,
                 mcts_pc, mcts_moves, mcts_result, ret, steps>>

\* mcts lines 524-531: the descent has stopped; an untried move, if there is
\* one, is expanded and simulate(node) starts with moves = 0
MctsExpand ==
  /\ ai_pc = "mcts" /\ mcts_pc = "select"
  /\ ~descends(ai_nodes[mcts_node])
  /\ \E e \in expand(ai_nodes, [node |-> mcts_node,
                                currentPlayer |-> mcts_currentPlayer]) :
       /\ ai_nodes' = e.nodes
       /\ mcts_node' = e.node
  /\ mcts_currentPlayer' = IF Len(ai_nodes[mcts_node].untriedMoves) > 0
                           THEN -mcts_currentPlayer ELSE mcts_currentPlayer
  /\ mcts_moves' = 0
  /\ mcts_pc' = "simulate"
  /\ op' = "addChild"
  /\ UNCHANGED <<mainVars, boardVars, gameVars, sessionVars, rulesVars, parVars, ctlVars,
                 ai_pc, ai_iter, ai_table, ai_from, mcts_result, ret, steps>>

\* simulate lines 489-493: one placement attempt of the playout.  The stone
\* goes to the temporary board, which the loop's tests do not read
SimulatePlace ==
  /\ ai_pc = "mcts" /\ mcts_pc = "simulate"
  /\ simulateContinues(this, mcts_moves)
  /\ mcts_moves' = mcts_moves + 1
  /\ op' = "simulate"
  /\ UNCHANGED <<mainVars, boardVars, gameVars, sessionVars, rulesVars, aiVars, parVars, ctlVars,
                 mcts_pc, mcts_node, mcts_currentPlayer, mcts_result, ret, steps>>

\* simulate lines 495-496: the playout is over and is scored; the
\* placements were random, the result is any of the three
SimulateReturn ==
  /\ ai_pc = "mcts" /\ mcts_pc = "simulate"
  /\ ~simulateContinues(this, mcts_moves)
  /\ mcts_result' \in Results
  /\ mcts_pc' = "update"
  /\ op' = "simulate"
  /\ UNCHANGED <<mainVars, boardVars, gameVars, sessionVars, rulesVars, aiVars, parVars, ctlVars,
                 mcts_node, mcts_currentPlayer, mcts_moves, ret, steps>>

\* mcts lines 532-536: one turn of "while (node)"
MctsUpdate ==
  /\ ai_pc = "mcts" /\ mcts_pc = "update"
  /\ mcts_node # 0
  /\ ai_nodes' = [ai_nodes EXCEPT ![mcts_node] = update(@, mcts_result)]
  /\ mcts_node' = ai_nodes[mcts_node].parent
  /\ mcts_result' = 2 - mcts_result
  /\ op' = "update"
  /\ UNCHANGED <<mainVars, boardVars, gameVars, sessionVars, rulesVars, parVars, ctlVars,
                 ai_pc, ai_iter, ai_table, ai_from,
                 mcts_pc, mcts_currentPlayer, mcts_moves, ret, steps>>

\* mcts line 512: node is null, the iteration is over and i++ follows
MctsNext ==
  /\ ai_pc = "mcts" /\ mcts_pc = "update"
  /\ mcts_node = 0
  /\ ai_iter' = ai_iter + 1
  /\ mcts_pc' = "loop"
  /\ op' = "mcts"
  /\ UNCHANGED <<mainVars, boardVars, gameVars, sessionVars, rulesVars, parVars, ctlVars,
                 ai_pc, ai_nodes, ai_table, ai_from,
                 mcts_node, mcts_currentPlayer, mcts_moves, mcts_result, ret, steps>>

\* parallelMcts(root, workerCount) of a GoAI built with simCount, up to the
\* loop over the workers (lines 555-559)
ParallelMcts(simCount, workerCount) ==
  /\ ai_pc = "idle"
  /\ par_pc \in {"idle", "done"}
  /\ par_pc' = "workers"
  /\ par_simCount' = simCount
  /\ par_workerCount' = workerCount
  /\ par_workers' = <<>>
  /\ par_j' = 0
  /\ par_root' = <<>>
  /\ par_results' = <<>>
  /\ par_playouts' = 0
  /\ op' = "parallelMcts"
  /\ steps' = steps + 1
  /\ UNCHANGED <<mainVars, searchVars, boardVars, gameVars, sessionVars, rulesVars, aiVars, ctlVars, ret>>

\* lines 560-564: the next worker's promise is built and its executor starts
WorkerStart ==
  /\ par_pc = "workers"
  /\ Len(par_workers) < par_workerCount
  /\ Len(par_workers) = 0 \/ par_j = chunkSize(par_simCount, par_workerCount)
  /\ par_workers' = Append(par_workers, <<workerRoot(board)>>)
  /\ par_j' = 0
  /\ op' = "worker"
  /\ steps' = steps + 1
  /\ UNCHANGED <<mainVars, searchVars, boardVars, gameVars, sessionVars, rulesVars, aiVars, ctlVars, ret,
                 par_pc, par_simCount, par_workerCount, par_root, par_results,
                 par_playouts>>

\* lines 565-590: one iteration of the running worker's loop
WorkerIteration ==
  /\ par_pc = "workers"
  /\ Len(par_workers) > 0
  /\ par_j < chunkSize(par_simCount, par_workerCount)
  /\ \E tree \in mctsIteration(par_workers[Len(par_workers)], AIPlayer) :
       par_workers' = [par_workers EXCEPT ![Len(par_workers)] = tree]
  /\ par_j' = par_j + 1
  /\ par_playouts' = par_playouts + 1
  /\ op' = "worker"
  /\ steps' = steps + 1
  /\ UNCHANGED <<mainVars, searchVars, boardVars, gameVars, sessionVars, rulesVars, aiVars, ctlVars, ret,
                 par_pc, par_simCount, par_workerCount, par_root, par_results>>

\* lines 595-606: every promise is resolved, Promise.all hands over the
\* workers' roots and the children are merged into root.children
Merge ==
  /\ par_pc = "workers"
  /\ Len(par_workers) = par_workerCount
  /\ par_j = chunkSize(par_simCount, par_workerCount)
  /\ par_results' = par_workers
  /\ par_workers' = mergeLoop([root |-> par_root, trees |-> par_workers], 1, 1).trees
  /\ par_root' = mergeLoop([root |-> par_root, trees |-> par_workers], 1, 1).root
  /\ par_pc' = "done"
  /\ op' = "parallelMcts"
  /\ steps' = steps + 1
  /\ UNCHANGED <<mainVars, searchVars, boardVars, gameVars, sessionVars, rulesVars, aiVars, ctlVars, ret,
                 par_simCount, par_workerCount, par_j, par_playouts>>

\* the GameController M of main.js is stored
setMain(M) ==
  /\ setSession(M.game)
  /\ m_board' = M.board
  /\ m_mode' = M.mode
  /\ m_aiPlayer' = M.aiPlayer
  /\ m_gameState' = M.gameState
  /\ m_timers' = M.timers
  /\ ret' = Null
  /\ steps' = steps + 1
  /\ UNCHANGED <<searchVars, placedGrids, gameVars, rulesVars, aiVars, parVars, ctlVars>>

\* main.js: the start button
M_StartGame ==
  /\ steps < MaxMainSteps
  /\ setMain(M_startGame(M_this))
  /\ op' = "M_startGame"

\* main.js: the mode select
M_ChangeMode(mode) ==
  /\ steps < MaxMainSteps
  /\ setMain(M_changeMode(M_this, mode))
  /\ op' = "M_changeMode"

\* main.js: the pass button
M_PassTurn ==
  /\ steps < MaxMainSteps
  /\ setMain(M_passTurn(M_this))
  /\ op' = "M_passTurn"

\* ui.js: a click on the canvas
M_HandleClick(x, y, moveTime) ==
  /\ steps < MaxMainSteps
  /\ setMain(M_handleClick(M_this, x, y, moveTime))
  /\ op' = "M_handleClick"

\* main.js: a timeout of makeAIMove ends and the GoAI is asked for a move
M_AICallback(moveTime) ==
  /\ steps < MaxMainSteps
  /\ m_timers > 0
  /\ \E move \in M_getBestMoveParallel(m_board) :
       setMain(M_aiCallback(M_this, move, moveTime))
  /\ op' = "M_aiCallback"

\* a GoBoard under its mutating operations
Next ==
  \/ \E x \in Coords, y \in Coords, player \in Players :
       steps < MaxSteps /\ PlaceStone(x, y, player)
  \/ steps < MaxSteps /\ UndoMove
  \/ \E player \in Players, deadPoints \in DeadPointLists :
       steps < MaxSteps /\ MarkDeadGroups(player, deadPoints)

Spec == Init /\ [][Next]_vars

\* the same operations, longer runs
NextDeep ==
  \/ \E x \in Coords, y \in Coords, player \in Players :
       steps < MaxDeepSteps /\ PlaceStone(x, y, player)
  \/ steps < MaxDeepSteps /\ UndoMove
  \/ \E player \in Players, deadPoints \in DeadPointLists :
       steps < MaxDeepSteps /\ MarkDeadGroups(player, deadPoints)

SpecDeep == Init /\ [][NextDeep]_vars

\* a GoBoard from its construction, placeStone only
NextPlace ==
  /\ steps < MaxDeepSteps
  /\ \E x \in Coords, y \in Coords, player \in Players : PlaceStone(x, y, player)

SpecPlace == Init /\ [][NextPlace]_vars

\* a GoBoard with placeStone, undoMove and handleEternalLife
NextKo ==
  \/ \E x \in Coords, y \in Coords, player \in Players :
       steps < MaxDeepSteps /\ PlaceStone(x, y, player)
  \/ steps < MaxDeepSteps /\ UndoMove
  \/ steps < MaxDeepSteps /\ HandleEternalLife

SpecKo == Init /\ [][NextKo]_vars

\* a GoBoard from its construction, placeStone and scoring queries
NextScore ==
  \/ \E x \in Coords, y \in Coords, player \in Players :
       steps < MaxDeepSteps /\ PlaceStone(x, y, player)
  \/ \E player \in Players :
       steps < MaxDeepSteps /\ CalculateTerritoryJapanese(player)

SpecScore == Init /\ [][NextScore]_vars

\* the standalone GoGame
NextGame ==
  \/ \E x \in G_Coords, y \in G_Coords : G_PlaceStone(x, y)
  \/ G_Pass
  \/ G_Undo
  \/ G_Resign

SpecGame == Init /\ [][NextGame]_vars

\* the GameController of the standalone GoGame under the user's clicks and
\* the AI worker's answers
NextController ==
  \/ \E mode \in {"ai", "hotseat"} : GC_StartNewGame(mode)
  \/ \E c \in G_Cells : GC_HandleCanvasClick(c[1], c[2])
  \/ GC_HandlePass
  \/ \E c \in G_Cells : GC_HandleAIMove(c[1], c[2])
  \/ GC_ResumeGame

SpecController == Init /\ [][NextController]_vars

\* the standalone GameController with all its buttons and the AI worker
NextControllerAI ==
  \/ \E mode \in {"ai", "hotseat"} : GC_StartNewGame(mode)
  \/ \E c \in G_Cells : GC_HandleCanvasClick(c[1], c[2])
  \/ GC_HandlePass
  \/ GC_HandleResign
  \/ GC_HandleUndo
  \/ GC_ShowHint
  \/ \E c \in G_Cells : GC_HandleAIMove(c[1], c[2])
  \/ \E c \in G_Cells : GC_HintReceived(c[1], c[2])
  \/ GC_ResumeGame

SpecControllerAI == Init /\ [][NextControllerAI]_vars

\* the GameController of main.js
NextMain ==
  \/ M_StartGame
  \/ \E mode \in {"human-vs-human", "human-vs-ai", "ai-vs-ai"} : M_ChangeMode(mode)
  \/ M_PassTurn
  \/ \E x \in Coords, y \in Coords, moveTime \in 0 .. MaxMoveTime :
       M_HandleClick(x, y, moveTime)
  \/ \E moveTime \in 0 .. MaxMoveTime : M_AICallback(moveTime)

SpecMain == Init /\ [][NextMain]_vars

\* the GoGame on a GoBoard
NextSession ==
  \/ \E x \in Coords, y \in Coords, moveTime \in 0 .. MaxMoveTime :
       S_MakeMove(x, y, moveTime)
  \/ S_PassMove
  \/ S_UndoMove

SpecSession == Init /\ [][NextSession]_vars

\* the GoGame on a GoBoard in the modes with an AI player
NextSessionAI ==
  \/ \E aiPlayer \in 0 .. 2 : S_SetMode(aiPlayer)
  \/ \E c \in Cells, moveTime \in 0 .. MaxMoveTime :
       S_MakeMove(c[1], c[2], moveTime)
  \/ S_PassMove
  \/ S_ResetGame
  \/ \E stale \in BOOLEAN : S_AICallback(stale)

SpecSessionAI == Init /\ [][NextSessionAI]_vars

\* the GoGame on a GoBoard with its score and state caches
NextSessionCache ==
  \/ \E c \in Cells, moveTime \in 0 .. MaxMoveTime :
       S_MakeMove(c[1], c[2], moveTime)
  \/ S_PassMove
  \/ S_UndoMove
  \/ S_ResetGame
  \/ S_CalculateFinalScore

SpecSessionCache == Init /\ [][NextSessionCache]_vars

\* GoRules on a board that is played on
NextRules ==
  \/ \E x \in Coords, y \in Coords, player \in Players :
       steps < MaxRulesSteps /\ PlaceStone(x, y, player)
  \/ \E player \in Players, deadPoints \in DeadPointLists :
       steps < MaxRulesSteps /\ MarkDeadGroups(player, deadPoints)
  \/ \E komi \in 0 .. MaxKomi : SetKomi(komi)
  \/ \E player \in Players : ResignGame(player)
  \/ \E player \in Players : TimeoutGame(player)
  \/ CalculateScoreJapanese
  \/ CalculateScoreChinese

SpecRules == Init /\ [][NextRules]_vars

\* a GoAI on the game's GoBoard: stones are placed, then the AI is asked
NextAI ==
  \/ \E c \in Cells, player \in Players :
       /\ ai_pc = "idle" /\ steps < MaxAIPlacements
       /\ PlaceStone(c[1], c[2], player)
  \/ steps < MaxAISteps /\ GetBestMoveCached
  \/ steps < MaxAISteps /\ GetBestMoveNN
  \/ steps < MaxAISteps /\ GetBestMoveSearch
  \/ steps < MaxAISteps /\ MctsIteration
  \/ steps < MaxAISteps /\ GetBestMoveReturn

SpecAI == Init /\ [][NextAI]_vars

\* the steps of mcts(root) and of the return of getBestMove
MctsStep ==
  \/ MctsLoop
  \/ MctsSelectChild
  \/ MctsExpand
  \/ SimulatePlace
  \/ SimulateReturn
  \/ MctsUpdate
  \/ MctsNext
  \/ mcts_pc = "loop" /\ GetBestMoveReturn

\* the search of getBestMove step by step: stones are placed in turn, black
\* first, then the AI searches
NextSearch ==
  \/ \E c \in Cells :
       /\ ai_pc = "idle" /\ steps < MaxAIPlacements
       /\ PlaceStone(c[1], c[2], 1 + (steps % 2))
  \/ steps < MaxAISteps /\ GetBestMoveSearch
  \/ MctsStep

SpecSearch == Init /\ [][NextSearch]_vars

\* parallelMcts on the board of a GoAI, for the budgets and worker counts
\* up to the bounds
NextParallel ==
  \/ \E c \in Cells, player \in Players :
       /\ par_pc = "idle" /\ steps < MaxParallelPlacements
       /\ PlaceStone(c[1], c[2], player)
  \/ \E simCount \in 0 .. SimCount, workerCount \in 1 .. MaxWorkers :
       par_pc = "idle" /\ ParallelMcts(simCount, workerCount)
  \/ WorkerStart
  \/ WorkerIteration
  \/ Merge

SpecParallel == Init /\ [][NextParallel]_vars

(***************************************************************************)
(* Properties                                                              *)
(***************************************************************************)
\* the maximal 4-connected group of the stone at c on grid b
trueGroup(b, c) == Range(groupSearch(b, c))

\* the empty orthogonal neighbours of a set of cells on grid b
trueLiberties(b, g) ==
  {n \in Cells : b[n] = 0 /\ \E s \in g : n \in Range(getNeighbors(s))}

\* C1: a placeStone that returns false leaves the grid, the capture tallies,
\* the ko point, the superko history and the move history as they were
C1_RejectedPlaceStoneChangesNothing ==
  [][(op' = "placeStone" /\ ret' = FALSE) =>
       /\ board' = board
       /\ captured' = captured
       /\ koPoint' = koPoint
       /\ superKoHistory' = superKoHistory
       /\ moveHistory' = moveHistory]_vars

\* C2: isValidMove(x, y, player) is true exactly when placeStone(x, y, player)
\* would succeed, for every cell and player in every reachable state
C2_IsValidMoveAgreesWithPlaceStone ==
  \A x \in Coords, y \in Coords, player \in Players :
    isValidMove(this, x, y, player) <=> placeStone(this, x, y, player).ret

\* C3: every maximal group of stones on the grid has at least one empty
\* orthogonal neighbour
C3_EveryGroupHasALiberty ==
  \A c \in Cells :
    board[c] # 0 => trueLiberties(board, trueGroup(board, c)) # {}

\* the move recorded by the last successful placeStone
lastMove == moveHistory[Len(moveHistory)]

\* the stones of the opposing groups next to stone c of grid b that have no
\* liberty on b
doomedStones(b, c) ==
  UNION {trueGroup(b, n) : n \in {m \in Range(getNeighbors(c)) :
                                   /\ b[m] # 0
                                   /\ b[m] # b[c]
                                   /\ trueLiberties(b, trueGroup(b, m)) = {}}}

\* C4: a successful placeStone removes from the grid exactly the stones of
\* the opposing groups next to the placed stone that are left without a
\* liberty by the placement
C4_CapturesExactlyTheDeadNeighbours ==
  [][(op' = "placeStone" /\ ret' = TRUE) =>
       LET c == <<lastMove'.x, lastMove'.y>>
           b1 == [board EXCEPT ![c] = lastMove'.player]
       IN {d \in Cells : board[d] # 0 /\ board'[d] = 0} = doomedStones(b1, c)]_vars

\* C5: a successful placeStone by player p adds to captured[p] the number of
\* opposing stones it removed from the grid and leaves the other tally alone
C5_TallyCountsRemovedStones ==
  [][(op' = "placeStone" /\ ret' = TRUE) =>
       LET p == lastMove'.player
           q == IF p = 1 THEN 2 ELSE 1
           removed == {d \in Cells : board[d] = q /\ board'[d] = 0}
       IN /\ captured'[p] = captured[p] + Cardinality(removed)
          /\ captured'[q] = captured[q]]_vars

\* C6: no successful placeStone leaves the grid equal to the grid left by an
\* earlier successful placeStone on the same board
C6_NoGridRepeats ==
  [][(op' = "placeStone" /\ ret' = TRUE) => board' \notin placedGrids]_vars

\* a placeStone has just been refused, and a move on an empty cell whose
\* grid is in the superko history is refused
C6_Witness ==
  /\ op = "placeStone"
  /\ ret = FALSE
  /\ \E x \in Coords, y \in Coords, player \in Players :
       /\ isValidMove(this, x, y, player)
       /\ [board EXCEPT ![<<x, y>>] = player] \in placedGrids
       /\ checkSuperKo(superKoHistory,
                       getBoardStateString([board EXCEPT ![<<x, y>>] = player]))
       /\ ~placeStone(this, x, y, player).ret

\* C7: after a successful placeStone the ko point is the captured cell when
\* one stone was captured by a single-stone group, and null otherwise
C7_KoPointIsTheCapturedCell ==
  [][(op' = "placeStone" /\ ret' = TRUE) =>
       LET c == <<lastMove'.x, lastMove'.y>>
           removed == {d \in Cells : board[d] # 0 /\ board'[d] = 0}
       IN koPoint' = IF Cardinality(removed) = 1 /\ trueGroup(board', c) = {c}
                     THEN CHOOSE d \in removed : TRUE
                     ELSE Null]_vars

\* C8: in the standalone game every group of stones on the grid has at
\* least one liberty
C8_GameEveryGroupHasALiberty ==
  \A c \in G_Cells :
    g_board[c] # 0 => G_getGroupLiberties(g_board, c) # {}

\* a placement has just captured stones
C8_Witness ==
  /\ op = "G_placeStone"
  /\ ret = TRUE
  /\ g_history[Len(g_history)].captures # g_captures

\* the cells emptied by a step of the standalone game
G_removed == {d \in G_Cells : g_board[d] # 0 /\ g_board'[d] = 0}

\* the cell filled by a step of the standalone game
G_placed == CHOOSE c \in G_Cells : g_board[c] = 0 /\ g_board'[c] # 0

\* C9: after a single stone has captured exactly one stone, a placeStone on
\* the captured point returns false and changes nothing; and a successful
\* placeStone never leaves the ko point where it was
C9_SimpleKo ==
  [][(op' = "G_placeStone" /\ ret' = TRUE) =>
       /\ (Cardinality(G_removed) = 1 /\ G_getGroup(g_board', G_placed) = {G_placed}) =>
            LET d == CHOOSE e \in G_removed : TRUE
                again == G_placeStone(G_this', d[1], d[2])
            IN again.ret = FALSE /\ again.obj = G_this'
       /\ g_koPoint # Null => g_koPoint' # g_koPoint]_vars

\* a single stone has just captured one stone, and the opponent's recapture
\* on the captured point would itself capture, so that only the ko rule
\* stands in its way
C9_Witness ==
  /\ op = "G_placeStone"
  /\ ret = TRUE
  /\ g_koPoint # Null
  /\ ~G_isSuicideMove(g_board, g_koPoint, g_currentPlayer)

\* C10: right after a pass the ko point is null
C10_PassClearsKoPoint ==
  [][op' = "G_pass" => g_koPoint' = Null]_vars

\* C11: in every reachable state S, a placeStone that succeeds followed by
\* undoMove gives back the grid, the capture tallies and the ko point of S
C11_UndoRestoresThePriorState ==
  \A x \in Coords, y \in Coords, player \in Players :
    LET r == placeStone(this, x, y, player)
        u == undoMove(r.obj)
    IN r.ret => /\ u.board = board
                /\ u.captured = captured
                /\ u.koPoint = koPoint

\* C12: in every reachable state, a move that succeeds and is undone succeeds
\* again when replayed and leaves the grid it left the first time (the claim
\* for a single undone move)
C12_UndoThenReplay ==
  \A x \in Coords, y \in Coords, player \in Players :
    LET r == placeStone(this, x, y, player)
        again == placeStone(undoMove(r.obj), x, y, player)
    IN r.ret => again.ret /\ again.obj.board = r.obj.board

\* the fields of a standalone game that undo is to restore
G_restorable(G) ==
  <<G.board, G.captures, G.koPoint, G.currentPlayer, G.consecutivePasses>>

\* C13: in every reachable state of the standalone game, undo() after a
\* successful placeStone or after a pass gives back the grid, the capture
\* counts, the ko point, the current player and the pass count, and undo() on
\* an empty history returns false and changes nothing
C13_GameUndoRestores ==
  /\ \A x \in G_Coords, y \in G_Coords :
       LET r == G_placeStone(G_this, x, y)
           u == G_undo(r.obj)
       IN r.ret => u.ret /\ G_restorable(u.obj) = G_restorable(G_this)
  /\ LET u == G_undo(G_pass(G_this).obj)
     IN u.ret /\ G_restorable(u.obj) = G_restorable(G_this)
  /\ Len(g_history) = 0 => G_undo(G_this) = [ret |-> FALSE, obj |-> G_this]

\* an undo has just brought back a position with an active ko point
C13_Witness ==
  /\ op = "G_undo"
  /\ ret = TRUE
  /\ g_koPoint # Null

\* C14: from every reachable state of the session with gameState 'active',
\* two passMove calls in a row leave gameState equal to 'ended'
C14_DoublePassEndsTheGame ==
  s_gameState = "active" =>
    S_passMove(S_passMove(S_this).obj).obj.gameState = "ended"

\* C15: while gameState is not 'active', makeMove and passMove return false
\* and leave the board, the history, the current player, the pass count and
\* the move count unchanged
C15_NoMoveOnceNotActive ==
  [][(s_gameState # "active" /\ op' \in {"S_makeMove", "S_passMove"}) =>
       /\ ret' = FALSE
       /\ this' = this
       /\ s_history' = s_history
       /\ s_currentPlayer' = s_currentPlayer
       /\ s_passCount' = s_passCount
       /\ s_moveCount' = s_moveCount]_vars

\* a makeMove on an empty cell has just been refused in a game that has ended
C15_Witness ==
  /\ op = "S_makeMove"
  /\ ret = FALSE
  /\ s_gameState = "ended"
  /\ \E c \in Cells : board[c] = 0

\* C16: once gameOver is true, placeStone and pass leave the grid, the
\* current player, the captures and the history as they were
C16_NoMoveOnceGameOver ==
  [][(g_gameOver /\ op' \in {"G_placeStone", "G_pass"}) =>
       /\ g_board' = g_board
       /\ g_currentPlayer' = g_currentPlayer
       /\ g_captures' = g_captures
       /\ g_history' = g_history]_vars

\* C17: after resignGame(p), isGameOverByResignation(p) is true, and after
\* timeoutGame(p), isGameOverByTimeout(p) is true
C17_ResignationIsRecorded ==
  \A player \in Players :
    /\ isGameOverByResignation(resignGame(R_this, player), player)
    /\ isGameOverByTimeout(timeoutGame(R_this, player), player)

\* C18: the result of calculateScoreJapanese names a winner only if that
\* colour's score is strictly the higher one, so equal scores name no winner
C18_WinnerHasTheHigherScore ==
  LET result == calculateScoreJapanese(R_this).val IN
    /\ result.winner = 1 => result.black > result.white
    /\ result.winner = 2 => result.white > result.black

\* the number of empty cells of grid b lying in a region of empty cells whose
\* bordering stones are all of the player's colour
trueTerritory(b, player) ==
  Cardinality({c \in Cells :
    /\ b[c] = 0
    /\ {b[n] : n \in {m \in Cells : b[m] # 0 /\ \E e \in trueGroup(b, c) :
                                               m \in Range(getNeighbors(e))}}
         = {player}})

\* C19: calculateScoreJapanese gives black the stones black has captured plus
\* black's territory, and white the stones white has captured plus white's
\* territory plus komi
C19_JapaneseScoreCreditsOwnCaptures ==
  LET result == calculateScoreJapanese(R_this).val IN
    /\ result.black = captured[1] + trueTerritory(board, 1)
    /\ result.white = captured[2] + trueTerritory(board, 2) + r_komi

\* C20: calculateScoreChinese gives each colour its stones on the grid plus
\* its territory, each empty cell counted once, and white komi on top; the
\* capture tallies add nothing
C20_ChineseScoreIsStonesPlusTerritory ==
  LET result == calculateScoreChinese(R_this).val IN
    /\ result.black = Cardinality({c \in Cells : board[c] = 1})
                        + trueTerritory(board, 1)
    /\ result.white = Cardinality({c \in Cells : board[c] = 2})
                        + trueTerritory(board, 2) + r_komi

\* a freshly constructed board given the grid and the capture tallies of the
\* current one
freshBoard == [newGoBoard EXCEPT !.board = board, !.captured = captured]

C22_MemoizationIsNeverStale ==
  \A c \in Cells :
    board[c] # 0 =>
      /\ Range(getGroup(board, groupCache, c).val) = trueGroup(board, c)
      /\ Range(getLiberties(board, groupCache, libertyCache, c).val)
           = trueLiberties(board, trueGroup(board, c))

\* the visits of the i-th child of the root
childVisits(i) == ai_nodes[ai_nodes[1].children[i]].visits

\* C23: when getBestMove ran the tree search and the root has a child, the
\* move returned is the move of a root child whose visits are maximal among
\* the root's children, and of the earliest-created one among those
C23_BestMoveIsFirstMostVisitedChild ==
  (op = "getBestMove" /\ ai_from = "mcts" /\ Len(ai_nodes[1].children) > 0) =>
    \E i \in 1 .. Len(ai_nodes[1].children) :
      /\ ret = ai_nodes[ai_nodes[1].children[i]].move
      /\ \A j \in 1 .. Len(ai_nodes[1].children) :
           /\ childVisits(j) <= childVisits(i)
           /\ j < i => childVisits(j) < childVisits(i)

\* a search returned the move of a child created after the first one, and two
\* children of the root differ in their visits
C23_Witness ==
  /\ op = "getBestMove" /\ ai_from = "mcts"
  /\ Len(ai_nodes[1].children) > 1
  /\ ret # ai_nodes[ai_nodes[1].children[1]].move
  /\ childVisits(1) < childVisits(2)

\* node n and the nodes above it, up to the root
RECURSIVE ancestors(_, _)
ancestors(nodes, n) ==
  IF n = 0 THEN {} ELSE {n} \cup ancestors(nodes, nodes[n].parent)

\* the visits (wins) of the children of node n, summed
RECURSIVE sumVisits(_, _)
sumVisits(nodes, ids) ==
  IF Len(ids) = 0 THEN 0 ELSE nodes[Head(ids)].visits + sumVisits(nodes, Tail(ids))

\* what node m held before an iteration (a node created by it held nothing)
visitsBefore(m) == IF m <= Len(ai_nodes) THEN ai_nodes[m].visits ELSE 0

winsBefore(m) == IF m <= Len(ai_nodes) THEN ai_nodes[m].wins ELSE 0

\* an iteration that simulated node n with result r: the nodes from n up to
\* the root gain one visit and, alternately, r and 2 - r half points; every
\* other node is left as it was
backpropagated(n, r) ==
  \A m \in 1 .. Len(ai_nodes') :
    IF m \in ancestors(ai_nodes', n)
    THEN /\ ai_nodes'[m].visits = visitsBefore(m) + 1
         /\ ai_nodes'[m].wins = winsBefore(m) +
              (IF (Cardinality(ancestors(ai_nodes', n))
                     - Cardinality(ancestors(ai_nodes', m))) % 2 = 0
               THEN r ELSE 2 - r)
    ELSE /\ ai_nodes'[m].visits = visitsBefore(m)
         /\ ai_nodes'[m].wins = winsBefore(m)

\* after k iterations the root has k visits, and every node has wins between
\* 0 and its visits (in half points: twice its visits) and at least as many
\* visits as its children together
bookkeeping ==
  ai_pc = "mcts" =>
    /\ ai_nodes[1].visits = ai_iter
    /\ \A n \in 1 .. Len(ai_nodes) :
         /\ 0 <= ai_nodes[n].wins
         /\ ai_nodes[n].wins <= 2 * ai_nodes[n].visits
         /\ ai_nodes[n].visits >= sumVisits(ai_nodes, ai_nodes[n].children)

\* C25: each iteration of mcts adds one visit to every node from the
\* simulated node up to the root and to no other node, adding result and
\* 1 - result alternately along that path; so after k iterations the root
\* has k visits and every node has 0 <= wins <= visits and at least as many
\* visits as its children together
C25_BackpropagationBookkeeping ==
  /\ []bookkeeping
  /\ [][(ai_pc = "mcts" /\ ai_iter' = ai_iter + 1) =>
          \E n \in 1 .. Len(ai_nodes'), r \in Results :
            /\ Len(ai_nodes') > Len(ai_nodes) => n = Len(ai_nodes')
            /\ backpropagated(n, r)]_vars

\* a search ran all its iterations, built a node below a child of the root,
\* and some node has won a part of its visits only
C25_Witness ==
  /\ ai_pc = "mcts" /\ ai_iter = SimCount
  /\ \E n \in 1 .. Len(ai_nodes) : ai_nodes[n].parent > 1
  /\ \E n \in 1 .. Len(ai_nodes) :
       0 < ai_nodes[n].wins /\ ai_nodes[n].wins < 2 * ai_nodes[n].visits

\* C24: a move that getBestMove returns from a hit of the transposition
\* table is legal in the current game: placeStone accepts it for the AI's
\* player (the cell is empty, the move is no suicide, does not retake the ko
\* and does not repeat an earlier position)
C24_CachedMoveIsLegal ==
  (op = "getBestMove" /\ ai_from = "cache") =>
    placeStone(this, ret[1], ret[2], AIPlayer).ret = TRUE

\* the child of root.children at position i after the merge
mergedChild(i) == par_workers[par_root[i].worker][par_root[i].node]

\* the children of the root of worker w's tree, as the worker resolved it
resolvedChildren(w) ==
  {par_results[w][ch] : ch \in Range(par_results[w][1].children)}

\* the visits (wins) that the workers from w on gave to the move at their roots
RECURSIVE workersVisits(_, _)
workersVisits(w, move) ==
  IF w > Len(par_results) THEN 0
  ELSE workersVisits(w + 1, move)
       + (IF \E n \in resolvedChildren(w) : n.move = move
          THEN (CHOOSE n \in resolvedChildren(w) : n.move = move).visits ELSE 0)

RECURSIVE workersWins(_, _)
workersWins(w, move) ==
  IF w > Len(par_results) THEN 0
  ELSE workersWins(w + 1, move)
       + (IF \E n \in resolvedChildren(w) : n.move = move
          THEN (CHOOSE n \in resolvedChildren(w) : n.move = move).wins ELSE 0)

\* after the merge: one child per move expanded at a worker's root, holding
\* the workers' sums
merged ==
  par_pc = "done" =>
    /\ {mergedChild(i).move : i \in 1 .. Len(par_root)}
         = UNION {{n.move : n \in resolvedChildren(w)} : w \in 1 .. Len(par_results)}
    /\ \A i, j \in 1 .. Len(par_root) :
         mergedChild(i).move = mergedChild(j).move => i = j
    /\ \A i \in 1 .. Len(par_root) :
         /\ mergedChild(i).visits = workersVisits(1, mergedChild(i).move)
         /\ mergedChild(i).wins = workersWins(1, mergedChild(i).move)

\* C26: after parallelMcts the root has exactly one child per distinct move
\* expanded at the root of a worker's tree, with visits and wins equal to the
\* sums over the workers of their root child for that move; and the merge
\* starts only when every worker has run all its iterations
C26_ParallelMergeSumsPerMove ==
  /\ []merged
  /\ [][par_root' # par_root /\ par_root' # <<>> =>
          /\ Len(par_workers) = par_workerCount
          /\ \A w \in 1 .. Len(par_workers) :
               par_workers[w][1].visits = chunkSize(par_simCount, par_workerCount)]_vars

\* two workers were merged: a move expanded by both holds more visits than
\* either gave it, and another move was expanded by one worker only
C26_Witness ==
  /\ par_pc = "done" /\ par_workerCount = 2
  /\ \E i \in 1 .. Len(par_root) :
       \A w \in 1 .. 2 :
         \E n \in resolvedChildren(w) :
           n.move = mergedChild(i).move /\ n.visits < mergedChild(i).visits
  /\ \E i \in 1 .. Len(par_root) :
       \E w \in 1 .. 2 :
         \A n \in resolvedChildren(w) : n.move # mergedChild(i).move

\* C27: the workers of parallelMcts share the budget: together they run
\* simCount playouts, for every simCount >= 0 and every number of workers
C27_WorkersShareTheBudget ==
  par_pc = "done" => par_playouts = par_simCount

\* C28: a callback that scheduleAIMove handed to setTimeout before a
\* resetGame does not touch the game after the reset: when its timeout ends
\* the board, the history, the player to move and the counters stay as the
\* reset left them
C28_NoStaleAICallbackAfterReset ==
  [][op' = "S_aiCallback_stale" =>
       UNCHANGED <<board, s_history, s_currentPlayer, s_moveCount, s_passCount,
                   s_gameState>>]_vars

\* the keys of a Map
mapKeys(cache) == {cache[i].key : i \in 1 .. Len(cache)}

\* a step from cache to cache2 that is no clear() and drops a key: the Map
\* was full, the key dropped is the one inserted earliest, and the other
\* entries keep their order in front of the new one
oldestEvicted(cache, cache2) ==
  (cache2 # <<>> /\ ~(mapKeys(cache) \subseteq mapKeys(cache2))) =>
    /\ Len(cache) = S_lruCacheLimit
    /\ mapKeys(cache) \ mapKeys(cache2) = {cache[1].key}
    /\ SubSeq(cache2, 1, Len(cache2) - 1) = Tail(cache)

\* the entry that an operation has just inserted is in its cache
newestKept ==
  /\ (op \in {"S_makeMove", "S_passMove"} /\ ret = TRUE) =>
       mapHas(s_stateCache, <<getBoardStateString(board), s_currentPlayer>>)
  /\ op = "S_calculateFinalScore" =>
       mapHas(s_scoreCache, getBoardStateString(board))

\* the caches of the session and of its board hold no more than their limits
cachesBounded ==
  /\ Len(s_scoreCache) <= S_lruCacheLimit
  /\ Len(s_stateCache) <= S_lruCacheLimit
  /\ Cardinality(DOMAIN groupCache) <= lruCacheLimit
  /\ Cardinality(DOMAIN libertyCache) <= lruCacheLimit
  /\ Cardinality(DOMAIN eyeCache) <= lruCacheLimit
  /\ Cardinality(DOMAIN territoryCache) <= lruCacheLimit

C30_DeadMarkingAfterDoublePass ==
  [][(/\ op' = "GC_handleCanvasClick"
      /\ g_gameOver /\ g_consecutivePasses >= 2 /\ gc_isDeadMarkingMode
      /\ ~gc_isAIThinking
      /\ g_board[ret'] # 0) =>
       g_deadStones' = IF ret' \in g_deadStones
                       THEN g_deadStones \ G_getGroup(g_board, ret')
                       ELSE g_deadStones \cup G_getGroup(g_board, ret')]_vars

\* the depth of node id in the tree
RECURSIVE depth(_, _)
depth(nodes, id) ==
  IF nodes[id].parent = 0 THEN 0 ELSE 1 + depth(nodes, nodes[id].parent)


\* the positions of one iteration of mcts, from its end to its start: the
\* rank falls with every step of the iteration
updateRank == IF mcts_node = 0 THEN 0 ELSE depth(ai_nodes, mcts_node) + 2
simulateRank == SimCount + 3 + (playoutCap - mcts_moves)
selectRank == SimCount + playoutCap + 4 + (SimCount - depth(ai_nodes, mcts_node))
loopRank == 2 * SimCount + playoutCap + 5

\* the variant of mcts: the iterations left, then the rank in the iteration
variant ==
  (SimCount - ai_iter) * (loopRank + 1)
    + (CASE mcts_pc = "loop" -> loopRank
         [] mcts_pc = "select" -> selectRank
         [] mcts_pc = "simulate" -> simulateRank
         [] mcts_pc = "update" -> updateRank)

\* mcts is never stuck: in each of its positions one of its steps can be taken
canStep ==
  ai_pc = "mcts" =>
    \/ mcts_pc = "loop" /\ ai_iter <= SimCount
    \/ mcts_pc = "select" /\ mcts_node \in DOMAIN ai_nodes
         /\ (descends(ai_nodes[mcts_node]) =>
               Range(ai_nodes[mcts_node].children) # {})
    \/ mcts_pc = "simulate" /\ mcts_node \in DOMAIN ai_nodes
    \/ mcts_pc = "update" /\ mcts_node \in 0 .. Len(ai_nodes)

\* C31: every iteration of mcts finishes: the descent stops at a node with
\* untried moves or without children, the playout makes at most 100
\* placement attempts, and mcts returns after exactly simCount iterations.
\* Termination is stated with a variant: mcts can always take a step, every
\* step makes the variant smaller, and the variant is never negative
C31_SearchTerminates ==
  /\ [](mcts_moves <= playoutCap)
  /\ [](canStep /\ (ai_pc = "mcts" => variant >= 0))
  /\ [][ai_pc = "mcts" /\ ai_pc' = "mcts" => variant' < variant]_vars
  /\ [][mcts_pc = "select" /\ mcts_pc' = "simulate" =>
          \/ Len(ai_nodes[mcts_node].untriedMoves) > 0
          \/ Len(ai_nodes[mcts_node].children) = 0]_vars
  /\ [][ai_pc = "mcts" /\ ai_pc' = "idle" => ai_iter = SimCount]_vars

\* a search has returned after a capped playout and a descent below the root
C31_Witness ==
  /\ ai_pc = "idle" /\ ai_from = "mcts"
  /\ ai_iter = SimCount
  /\ mcts_moves = playoutCap
  /\ \E i \in DOMAIN ai_nodes : depth(ai_nodes, i) = 2

\* the number of pass entries at the end of history h
RECURSIVE trailingPasses(_)
trailingPasses(h) ==
  IF Len(h) = 0 \/ h[Len(h)].x # S_null THEN 0
  ELSE 1 + trailingPasses(SubSeq(h, 1, Len(h) - 1))

\* C32: in every state of the session reached by makeMove, passMove and
\* undoMove, passCount is the number of consecutive pass entries at the end
\* of the history, and so is never negative
C32_PassCountIsTrailingPasses ==
  s_passCount >= 0 /\ s_passCount = trailingPasses(s_history)

C34_FingerprintCountsAreOne ==
  /\ \A state \in DOMAIN superKoHistory : superKoHistory[state] = 1
  /\ ~checkTripleKo(superKoHistory)
  /\ handleEternalLife(this) = [ret |-> FALSE, obj |-> this]
  /\ op = "handleEternalLife" => ret = FALSE

\* handleEternalLife has been called while a recorded grid, taken back by
\* undoMove, is one stone away from the board
C34_Witness ==
  /\ op = "handleEternalLife"
  /\ Len(moveHistory) = 0
  /\ \E state \in DOMAIN superKoHistory :
       /\ state # getBoardStateString(board)
       /\ \E c \in Cells, player \in Players :
            /\ isValidMove(this, c[1], c[2], player)
            /\ getBoardStateString([board EXCEPT ![c] = player]) = state

\* C35: once gameState of the session is 'player1_timeout' or
\* 'player2_timeout', no makeMove, passMove or undoMove sets it to 'active'
C35_TimeoutIsFinal ==
  [][(/\ s_gameState \in {S_timeout(1), S_timeout(2)}
      /\ op' \in {"S_makeMove", "S_passMove", "S_undoMove"}) =>
       s_gameState' # "active"]_vars

\* C36: in every state of the standalone GoGame reached by placeStone, pass
\* and undo without a resignation, gameOver is true exactly when
\* consecutivePasses >= 2
C36_GameOverIffTwoPasses ==
  g_winner = G_newGoGame.winner => (g_gameOver <=> g_consecutivePasses >= 2)

\* the cells that receive a stone in the step
stonesPlaced == {c \in G_Cells : g_board[c] = 0 /\ g_board'[c] # 0}

\* C37: in the standalone GameController every stone placed by handleAIMove
\* is white (player 2) and is placed only while the game is not over, under
\* every interleaving of clicks, pass, undo and resign with the worker's reply
C37_AIPlaysOnlyWhite ==
  [][(op' = "GC_handleAIMove" /\ stonesPlaced # {}) =>
       /\ ~g_gameOver
       /\ \A c \in stonesPlaced : g_board'[c] = 2]_vars

\* C38: whenever triggerAIMove has set isAIThinking and the worker replies,
\* isAIThinking is false afterwards, also after showHint has been used
C38_AIThinkingLockIsReleased ==
  [][(gc_isAIThinking /\ op' \in {"GC_handleAIMove", "GC_hintReceived"}) =>
       ~gc_isAIThinking']_vars

\* C39: whenever a callback of makeAIMove in main.js asks the GoAI for a
\* move, the grid of the board the GoAI holds equals the grid of the
\* session's board
C39_AISearchesCurrentPosition ==
  [][op' = "M_aiCallback" => m_board.board = board]_vars

====
